---- MODULE Spec2Model ----
(***************************************************************************)
(* Model of the paging cursor of wac.py: Page, Pagination and the item     *)
(* view PaginationMixin (Query / ResourceCollection) over one collection   *)
(* endpoint.                                                               *)
(*                                                                         *)
(* The endpoint holds `total` items, numbered 0 .. total-1.  A GET with    *)
(* limit=l, offset=o answers with the page of the items o .. o+l-1 that    *)
(* exist.  A page's next / previous attribute holds the neighbouring Page  *)
(* object or None, the way the pages of TestPagination are linked          *)
(* (tests.py 614-625) and the way _ObjectifyMixin._load materializes a     *)
(* nested page payload (wac.py 257-258).                                   *)
(*                                                                         *)
(* The second half models resources: _ObjectifyMixin (materialization of   *)
(* a payload, lazy link properties installed on the class) and             *)
(* Resource.get / refresh / save, over the instances r1, r2 of the classes *)
(* of tests.py (Resource with no type, Resource1 of type "one").           *)
(*                                                                         *)
(* The third part models the client:  Config objects and the              *)
(* configuration scope of Client (__enter__ / __exit__) over the threads   *)
(* t1, t2, the request executor Client._op with its hooks and error        *)
(* conversion, and Query with its filters, sorts and page size.            *)
(*                                                                         *)
(* The last part models the filter and sort expressions of the fields,     *)
(* the registry the resource classes share, and a Pagination whose pages   *)
(* are materialized from payloads that declare their links in _uris.       *)
(***************************************************************************)
EXTENDS Integers, Sequences, FiniteSets, TLC

\* Largest number of items the endpoint holds.
MaxItems == 5
\* Largest page size of the cursor.
MaxSize == 3
\* Positional keys tried are -MaxKey .. MaxKey.
MaxKey == 4
\* Slice bounds tried are None and -MaxBound .. MaxBound.
MaxBound == 2
\* Slice steps tried are None and -MaxStep .. MaxStep.
MaxStep == 2
\* Deepest nesting of configuration scopes (with client: ...) of one thread.
MaxDepth == 2
\* Longest hook list a configuration gets by appending.
MaxHooks == 2
\* Pages of one iteration that are kept: more than any chain of next links
\* of MaxItems items has.
MaxYield == MaxItems + 2
\* Most calls of filter, sort and limit on a Query after it was made.
MaxChanges == 2
\* Most inversions of one filter or sort expression.
MaxInversions == 3
\* Most resource classes defined at run time on one registry.
MaxClasses == 3

VARIABLES
    total,      \* number of items of the endpoint, as every response reports it
    size,       \* Pagination.size
    current,    \* Pagination._current
    gen,        \* the running generator of Pagination.__iter__
    call,       \* name of the last operation called
    key,        \* its positional argument (0 when it has none) or its slice
    before,     \* Pagination._current when that operation was called
    result,     \* what it returned or raised
    issued,     \* the page requests it issued, in order
    hops,       \* successful next() minus previous() since page 0 became current
    objects,    \* the resource instances: class and __dict__ of each
    props,      \* the lazy link properties installed on each class
    log,        \* per instance, since its fields were materialized: how its
                \* link property got the value it holds (a read, an assignment),
                \* that value, whether a read resolved the link, whether another
                \* field was assigned since
    client,     \* the Config objects, each thread's attributes of the Client,
                \* where each thread is in __enter__, and per thread the
                \* configurations that were live when it entered its scopes
    exchange,   \* the last request of Client._op: what it was called with
                \* and what happened, in order
    query,      \* the Query: uri, filters, sorts, page_size, _pagination;
                \* or the filter or sort expression a field built, and
                \* what inverting it has given;
    defined,    \* the classes defined at run time, in order, the registry
                \* they share and the warnings logged
    server      \* what the endpoint reports as the next link of the last
                \* page: none, or (on a later page) the first page again

vars == <<total, size, current, gen, call, key, before, result, issued, hops,
          objects, props, log, client, exchange, query, defined, server>>

-----------------------------------------------------------------------------
\* Values

\* None
NoPage == [kind |-> "none"]

\* A falsy / truthy test of a cursor value: None is falsy, a Page object
\* (no __len__, no __nonzero__) is truthy.
Truthy(v) == v.kind # "none"

\* The names the program binds resource instances to
Instances == {"r1", "r2"}

\* The classes instances are made of: the base class and a typed subclass
Classes == {"Resource", "Resource1"}

\* A name not bound to an instance yet
NoObject == [kind |-> "unbound"]

\* The empty dict
EmptyDict == [k \in {} |-> NoPage]

\* Nothing read from or assigned to the link property of an instance since
\* its fields were materialized
NoLog == [how |-> "none", held |-> NoPage, resolved |-> FALSE, touched |-> FALSE]

Min(a, b) == IF a < b THEN a ELSE b
Max(a, b) == IF a > b THEN a ELSE b

\* An endpoint whose last page has no next link, and one whose last page,
\* when it is not the first, links back to the first page
Honest == [loops |-> FALSE]
Looping == [loops |-> TRUE]

\* The items offset .. offset+limit-1 that exist, each named by its position
\* in the collection.
ServerItems(limit, offset) ==
    [i \in 1 .. Max(0, Min(limit, total - offset)) |-> offset + i - 1]

\* The page the endpoint answers to GET ?limit=..&offset=..
ServerPage(limit, offset) ==
    [kind |-> "page", items |-> ServerItems(limit, offset),
     total |-> total, offset |-> offset, limit |-> limit]

\* Page.next: the Page that follows the page; on the page that reaches the
\* end of the collection None, or what the endpoint reports there.
Page_next(page) ==
    IF page.offset + Len(page.items) >= page.total
    THEN IF server.loops /\ page.offset > 0
         THEN ServerPage(page.limit, 0) ELSE NoPage
    ELSE ServerPage(page.limit, page.offset + page.limit)

\* Page.previous: None on the page at offset 0, else the Page before it.
Page_previous(page) ==
    IF page.offset = 0
    THEN NoPage
    ELSE ServerPage(page.limit, Max(0, page.offset - page.limit))

\* Page.index: int(self.offset / self.total) if self.total else 0
Page_index(page) ==
    IF page.total # 0 THEN page.offset \div page.total ELSE 0

\* Results of an operation
RPage(p) == [kind |-> "page", page |-> p]
RNone == [kind |-> "None"]
RInt(n) == [kind |-> "int", value |-> n]
RItem(i) == [kind |-> "item", item |-> i]
RItems(s) == [kind |-> "items", items |-> s]
RRaise(e) == [kind |-> "raise", error |-> e]
RPages(s) == [kind |-> "pages", pages |-> s]
\* what an operation that returns a cursor value returns
RValue(v) == IF v.kind = "none" THEN RNone ELSE RPage(v)

\* The threads that use the one Client object
Threads == {"t1", "t2"}

\* The identity of an object made for a configuration: the Config object
\* itself, its headers dict, its two hook lists.  `by` and `depth` tell
\* whose attributes held the stack of saved configurations, and how many
\* it held, when the Config was made; no two live Configs share them.
Part(by, depth, part) == [by |-> by, depth |-> depth, part |-> part]

\* The Config the Client class holds (class attribute `config`)
ClassConfig == Part("Client", 0, "Config")

\* What a thread or the library wrote into a configuration: who, and how
\* many scopes deep that thread was
Tag(by, at) == [by |-> by, at |-> at]

\* The objects Config.__init__ makes: the headers hold the user agent, the
\* hook lists are empty (echo is off), the timeout is the constructor's
Config_reset(c) ==
    (c :> [headers |-> Part(c.by, c.depth, "headers"),
           before_request |-> Part(c.by, c.depth, "before_request"),
           after_request |-> Part(c.by, c.depth, "after_request"),
           timeout |-> Tag("wac", 0)])
    @@ (Part(c.by, c.depth, "headers") :> ("User-Agent" :> Tag("wac", 0)))
    @@ (Part(c.by, c.depth, "before_request") :> <<>>)
    @@ (Part(c.by, c.depth, "after_request") :> <<>>)

\* An attribute a thread has not set on the Client object
Unset == Part("nobody", 0, "unset")

\* Client.__init__ in each thread (the Client is a threading.local): no
\* configuration of its own, no saved configuration
NewClient ==
    [heap |-> Config_reset(ClassConfig),
     attr |-> [t \in Threads |-> [config |-> Unset, _configs |-> <<>>]],
     pc |-> [t \in Threads |-> "idle"],
     entered |-> [t \in Threads |-> <<>>]]

\* No request made yet
NoRequest == [kind |-> "none"]

\* No Query made yet
NoQuery == [kind |-> "none"]

\* No class defined at run time yet: an empty registry
NoClasses == [classes |-> <<>>, registry |-> EmptyDict, warnings |-> 0]

-----------------------------------------------------------------------------
\* Pagination

\* The request Pagination._page(key, size) issues.  The code computes
\* `size = size or self.size` and then builds the query string from
\* self.size: the size argument never reaches the request.
PageRequest(k, sz) == [limit |-> size, offset |-> k * size]

\* Pagination._page(key, size): the Page built from the response.
_page(k, sz) == ServerPage(PageRequest(k, sz).limit, PageRequest(k, sz).offset)

\* CeilDiv with the rounding up lost (integer division)
CeilDiv_floor(a, b) == a \div b

\* math.ceil(total / self.size) under true division, as an int
CeilDiv(a, b) == IF a % b = 0 THEN a \div b ELSE (a \div b) + 1

\* Pagination.count() called with _current = cur: the value and the requests.
count(cur) ==
    IF Truthy(cur)
    THEN [value |-> CeilDiv(cur.total, size), issued |-> <<>>]
    ELSE [value |-> CeilDiv(_page(0, 1).total, size),
          issued |-> <<PageRequest(0, 1)>>]

\* Pagination.current with a first() on every read
current_property_always_first(cur) ==
    [value |-> _page(0, 0), issued |-> <<PageRequest(0, 0)>>]

\* The property Pagination.current read with _current = cur: first() when
\* there is no current page; the value is also the new _current.
current_property(cur) ==
    IF ~Truthy(cur)
    THEN [value |-> _page(0, 0), issued |-> <<PageRequest(0, 0)>>]
    ELSE [value |-> cur, issued |-> <<>>]

\* Every operation records what it was called on and what came of it.
Record(name, k, res, reqs) ==
    /\ call' = name
    /\ key' = k
    /\ before' = current
    /\ result' = res
    /\ issued' = reqs
    /\ UNCHANGED <<objects, props, log, client, exchange, query, defined,
                   server>>

Init ==
    /\ total \in 0 .. MaxItems
    /\ size \in 1 .. MaxSize
    /\ current = NoPage
    /\ gen = [pc |-> "idle", page |-> NoPage, out |-> <<>>, was |-> NoPage]
    /\ call = "init"
    /\ key = 0
    /\ before = NoPage
    /\ result = RNone
    /\ issued = <<>>
    /\ hops = 0
    /\ objects = [i \in Instances |-> NoObject]
    /\ props = [c \in Classes |-> EmptyDict]
    /\ log = [i \in Instances |-> NoLog]
    /\ client = NewClient
    /\ exchange = NoRequest
    /\ query = NoQuery
    /\ defined = NoClasses
    /\ server = Honest

\* Pagination.first
Pagination_first ==
    /\ current' = _page(0, 0)
    /\ hops' = 0
    /\ Record("first", 0, RPage(_page(0, 0)), <<PageRequest(0, 0)>>)
    /\ UNCHANGED <<total, size, gen>>

\* Pagination.count
Pagination_count ==
    /\ Record("count", 0, RInt(count(current).value), count(current).issued)
    /\ UNCHANGED <<total, size, current, gen, hops>>

\* reading Pagination.current
Pagination_current ==
    /\ current' = current_property(current).value
    /\ hops' = IF Truthy(current) THEN hops ELSE 0
    /\ Record("current", 0, RPage(current_property(current).value),
              current_property(current).issued)
    /\ UNCHANGED <<total, size, gen>>

\* Pagination.fetched
fetched(cur) == cur # NoPage

\* Pagination.one
Pagination_one ==
    LET c == count(current) IN
    IF c.value > 1
    THEN /\ Record("one", 0, RRaise("MultipleResultsFound"), c.issued)
         /\ UNCHANGED <<total, size, current, gen, hops>>
    ELSE /\ current' = _page(0, 0)
         /\ hops' = 0
         /\ Record("one", 0, RPage(_page(0, 0)),
                   c.issued \o <<PageRequest(0, 0)>>)
         /\ UNCHANGED <<total, size, gen>>

\* Pagination.previous that returns the linked page without making it current
Pagination_previous_stale ==
    LET cp == current_property(current)
        base == IF Truthy(current) THEN hops ELSE 0
    IN
    /\ current' = cp.value
    /\ hops' = base
    /\ Record("previous", 0, RValue(Page_previous(cp.value)), cp.issued)
    /\ UNCHANGED <<total, size, gen>>

\* Pagination.previous
Pagination_previous ==
    LET cp == current_property(current)
        base == IF Truthy(current) THEN hops ELSE 0
    IN
    IF ~Truthy(Page_previous(cp.value))
    THEN /\ current' = cp.value
         /\ hops' = base
         /\ Record("previous", 0, RNone, cp.issued)
         /\ UNCHANGED <<total, size, gen>>
    ELSE /\ current' = Page_previous(cp.value)
         /\ hops' = base - 1
         /\ Record("previous", 0, RValue(Page_previous(cp.value)), cp.issued)
         /\ UNCHANGED <<total, size, gen>>

\* Pagination.next without the test for an absent link
Pagination_next_unguarded ==
    LET cp == current_property(current)
        base == IF Truthy(current) THEN hops ELSE 0
    IN
    /\ current' = Page_next(cp.value)
    /\ hops' = base + 1
    /\ Record("next", 0, RValue(Page_next(cp.value)), cp.issued)
    /\ UNCHANGED <<total, size, gen>>

\* Pagination.next
Pagination_next ==
    LET cp == current_property(current)
        base == IF Truthy(current) THEN hops ELSE 0
    IN
    IF ~Truthy(Page_next(cp.value))
    THEN /\ current' = cp.value
         /\ hops' = base
         /\ Record("next", 0, RNone, cp.issued)
         /\ UNCHANGED <<total, size, gen>>
    ELSE /\ current' = Page_next(cp.value)
         /\ hops' = base + 1
         /\ Record("next", 0, RValue(Page_next(cp.value)), cp.issued)
         /\ UNCHANGED <<total, size, gen>>

\* Pagination._index(key) called with _current = cur: what it returns or
\* raises, the _current it leaves and the requests it issues.
_index(cur, k) ==
    LET c == count(cur)
        k1 == IF k < 0 THEN k + c.value ELSE k
        cp == current_property(cur)
    IN
    IF (k < 0 /\ k1 < 0) \/ (k >= 0 /\ k > c.value)
    THEN [result |-> RRaise("IndexError"), current |-> cur,
          issued |-> c.issued]
    ELSE IF Page_index(cp.value) = k1
    THEN [result |-> RPage(cp.value), current |-> cp.value,
          issued |-> c.issued \o cp.issued]
    ELSE [result |-> RPage(_page(k1, 0)), current |-> cp.value,
          issued |-> c.issued \o cp.issued \o <<PageRequest(k1, 0)>>]

\* Pagination.__getitem__ with an int key
Pagination_getitem(k) ==
    /\ current' = _index(current, k).current
    /\ hops' = IF Truthy(current) THEN hops ELSE 0
    /\ Record("index", k, _index(current, k).result, _index(current, k).issued)
    /\ UNCHANGED <<total, size, gen>>

\* A slice argument: each of start, stop, step is <<>> (None) or <<int>>.
Slice(start, stop, step) == [start |-> start, stop |-> stop, step |-> step]

\* The slice arguments tried
Optional(S) == {<<>>} \cup {<<v>> : v \in S}
Slices ==
    {Slice(a, b, c) : a \in Optional(-MaxBound .. MaxBound),
                      b \in Optional(-MaxBound .. MaxBound),
                      c \in Optional(-MaxStep .. MaxStep)}

\* slice.indices(n) of the language: (start, stop, step) for a sequence of
\* length n.  The step is not 0.
slice_indices(sl, n) ==
    LET step == IF sl.step = <<>> THEN 1 ELSE sl.step[1]
        lower == IF step < 0 THEN -1 ELSE 0
        upper == IF step < 0 THEN n - 1 ELSE n
        clamp(v) == IF v < 0
                    THEN (IF v + n < 0 THEN lower ELSE v + n)
                    ELSE (IF v >= n THEN upper ELSE v)
    IN
    [start |-> IF sl.start = <<>>
               THEN (IF step < 0 THEN upper ELSE lower)
               ELSE clamp(sl.start[1]),
     stop |-> IF sl.stop = <<>>
              THEN (IF step < 0 THEN lower ELSE upper)
              ELSE clamp(sl.stop[1]),
     step |-> step]

\* xrange(start, stop, step) as a sequence
xrange(start, stop, step) ==
    LET n == IF step > 0
             THEN (IF stop > start THEN (stop - start + step - 1) \div step ELSE 0)
             ELSE (IF stop < start THEN (start - stop - step - 1) \div (-step) ELSE 0)
    IN [j \in 1 .. n |-> start + (j - 1) * step]

\* [self[i] for i in keys] started with _current = cur and the pages and
\* requests gathered so far: each self[i] is Pagination._index(i).
RECURSIVE index_each(_, _, _, _)
index_each(cur, keys, pages, reqs) ==
    IF keys = <<>>
    THEN [result |-> RPages(pages), current |-> cur, issued |-> reqs]
    ELSE LET r == _index(cur, Head(keys)) IN
         IF r.result.kind = "raise"
         THEN [result |-> r.result, current |-> r.current,
               issued |-> reqs \o r.issued]
         ELSE index_each(r.current, Tail(keys),
                         Append(pages, r.result.page), reqs \o r.issued)

\* Pagination._slice(key) called with _current = cur
_slice(cur, sl) ==
    IF sl.step = <<0>>
    THEN [result |-> RRaise("TypeError"), current |-> cur, issued |-> <<>>]
    ELSE LET c == count(cur)
             ix == slice_indices(sl, c.value)
         IN index_each(cur, xrange(ix.start, ix.stop, ix.step), <<>>, c.issued)

\* Pagination.__getitem__ with a slice key
Pagination_getslice(sl) ==
    /\ current' = _slice(current, sl).current
    /\ hops' = IF Truthy(current) THEN hops ELSE 0
    /\ Record("slice", sl, _slice(current, sl).result, _slice(current, sl).issued)
    /\ UNCHANGED <<total, size, gen>>

\* Pagination.__iter__, up to its first yield: `page = self.current`.
Pagination_iter_start ==
    LET cp == current_property(current) IN
    /\ gen.pc \in {"idle", "done"}
    /\ gen' = [pc |-> "yielded", page |-> cp.value, out |-> <<cp.value>>,
               was |-> current]
    /\ current' = cp.value
    /\ hops' = IF Truthy(current) THEN hops ELSE 0
    /\ Record("iter", 0, RPage(cp.value), cp.issued)
    /\ UNCHANGED <<total, size>>

\* Pagination.__iter__ resumed, with the loop written `while page.next:`
\* so that it ends before the last page is yielded
Pagination_iter_resume_short ==
    LET page == Page_next(gen.page) IN
    /\ gen.pc = "yielded"
    /\ IF Truthy(page) /\ Truthy(Page_next(page))
       THEN /\ gen' = [gen EXCEPT !.page = page, !.out = Append(@, page)]
            /\ Record("iter", 0, RPage(page), <<>>)
            /\ UNCHANGED <<total, size, current, hops>>
       ELSE /\ gen' = [gen EXCEPT !.pc = "done", !.page = NoPage]
            /\ current' = NoPage
            /\ hops' = 0
            /\ Record("iter", 0, RRaise("StopIteration"), <<>>)
            /\ UNCHANGED <<total, size>>

\* Pagination.__iter__ resumed after a yield: `page = page.next`, then the
\* next yield, or the end of the loop and `self._current = page`.  Of the
\* pages yielded the first MaxYield are kept.
Pagination_iter_resume ==
    LET page == Page_next(gen.page) IN
    /\ gen.pc = "yielded"
    /\ IF Truthy(page)
       THEN /\ gen' = [gen EXCEPT !.page = page,
                                  !.out = IF Len(@) < MaxYield
                                          THEN Append(@, page) ELSE @]
            /\ Record("iter", 0, RPage(page), <<>>)
            /\ UNCHANGED <<total, size, current, hops>>
       ELSE /\ gen' = [gen EXCEPT !.pc = "done", !.page = page]
            /\ current' = page
            /\ hops' = 0
            /\ Record("iter", 0, RRaise("StopIteration"), <<>>)
            /\ UNCHANGED <<total, size>>

\* The pages Pagination.__iter__ yields when it is run to its end from `page`.
RECURSIVE Pagination_iter(_)
Pagination_iter(page) ==
    IF Truthy(Page_next(page))
    THEN <<page>> \o Pagination_iter(Page_next(page))
    ELSE <<page>>

\* `for v in page.items` over the pages, in order
RECURSIVE Items(_)
Items(pages) ==
    IF pages = <<>> THEN <<>> ELSE Head(pages).items \o Items(Tail(pages))

-----------------------------------------------------------------------------
\* PaginationMixin (Query, ResourceCollection)

\* PaginationMixin.__iter__ without its pagination.first(): the items from
\* the current page on
PaginationMixin_iter_from_current(cur) ==
    [items |-> Items(Pagination_iter(current_property(cur).value)),
     issued |-> current_property(cur).issued,
     current |-> NoPage]

\* PaginationMixin.__iter__ run to its end with pagination._current = cur:
\* pagination.first(), then the items of every page of the pagination.
PaginationMixin_iter(cur) ==
    [items |-> Items(Pagination_iter(current_property(_page(0, 0)).value)),
     issued |-> <<PageRequest(0, 0)>>,
     current |-> NoPage]

\* PaginationMixin.all
PaginationMixin_all ==
    /\ current' = PaginationMixin_iter(current).current
    /\ hops' = 0
    /\ Record("all", 0, RItems(PaginationMixin_iter(current).items),
              PaginationMixin_iter(current).issued)
    /\ UNCHANGED <<total, size, gen>>

\* PaginationMixin.one called with pagination._current = cur
PaginationMixin_one_of(cur) ==
    LET cached == fetched(cur) /\ current_property(cur).value.offset = 0
        items == IF cached THEN cur.items ELSE _page(0, 2).items
        n == IF cached THEN cur.total ELSE Len(items)
    IN
    [result |-> IF n > 1 THEN RRaise("MultipleResultsFound")
                ELSE IF n = 0 THEN RRaise("NoResultFound")
                ELSE RItem(items[1]),
     issued |-> IF cached THEN <<>> ELSE <<PageRequest(0, 2)>>]

\* PaginationMixin.one
PaginationMixin_one ==
    /\ Record("mixin_one", 0, PaginationMixin_one_of(current).result,
              PaginationMixin_one_of(current).issued)
    /\ UNCHANGED <<total, size, current, gen, hops>>

\* PaginationMixin.count() called with pagination._current = cur
PaginationMixin_count_of(cur) ==
    IF fetched(cur)
    THEN [value |-> current_property(cur).value.total, issued |-> <<>>]
    ELSE [value |-> _page(0, 1).total, issued |-> <<PageRequest(0, 1)>>]

\* PaginationMixin.count
PaginationMixin_count ==
    /\ Record("mixin_count", 0, RInt(PaginationMixin_count_of(current).value),
              PaginationMixin_count_of(current).issued)
    /\ UNCHANGED <<total, size, current, gen, hops>>

\* PaginationMixin.first called with pagination._current = cur
PaginationMixin_first_of(cur) ==
    LET cached == fetched(cur) /\ current_property(cur).value.offset = 0
        items == IF cached THEN cur.items ELSE _page(0, 1).items
    IN
    [result |-> IF items # <<>> THEN RItem(items[1]) ELSE RNone,
     issued |-> IF cached THEN <<>> ELSE <<PageRequest(0, 1)>>]

\* PaginationMixin.first
PaginationMixin_first ==
    /\ Record("mixin_first", 0, PaginationMixin_first_of(current).result,
              PaginationMixin_first_of(current).issued)
    /\ UNCHANGED <<total, size, current, gen, hops>>

\* items[offset] of the language: IndexError outside 0 .. len(items)-1
\* (offset is never negative here)
item_at(items, offset) ==
    IF offset < Len(items) THEN RItem(items[offset + 1]) ELSE RRaise("IndexError")

\* PaginationMixin._index(key) called with pagination._current = cur
PaginationMixin_index(cur, k) ==
    LET c == PaginationMixin_count_of(cur)
        k1 == IF k < 0 THEN k + c.value ELSE k
        creqs == IF k < 0 THEN c.issued ELSE <<>>
        idx == k1 \div size
        offset == k1 % size
        r == _index(cur, idx)
        cp == current_property(r.current)
    IN
    IF k1 < 0
    THEN [result |-> RRaise("IndexError"), current |-> cur, issued |-> creqs]
    ELSE IF r.result.kind = "raise"
    THEN [result |-> r.result, current |-> r.current,
          issued |-> creqs \o r.issued]
    ELSE IF Len(cp.value.items) < offset
    THEN [result |-> RRaise("IndexError"), current |-> cp.value,
          issued |-> creqs \o r.issued \o cp.issued]
    ELSE [result |-> item_at(r.result.page.items, offset), current |-> cp.value,
          issued |-> creqs \o r.issued \o cp.issued]

\* PaginationMixin.__getitem__ with an int key
PaginationMixin_getitem(k) ==
    /\ current' = PaginationMixin_index(current, k).current
    /\ hops' = IF Truthy(current) THEN hops ELSE 0
    /\ Record("mixin_index", k, PaginationMixin_index(current, k).result,
              PaginationMixin_index(current, k).issued)
    /\ UNCHANGED <<total, size, gen>>

\* The loop of PaginationMixin._slice over the item positions `keys`, with
\* pagination._current = cur, the loop's `page`, and the items and requests
\* gathered so far.
RECURSIVE item_each(_, _, _, _, _)
item_each(cur, keys, page, items, reqs) ==
    IF keys = <<>>
    THEN [result |-> RItems(items), current |-> cur, issued |-> reqs]
    ELSE LET idx == Head(keys) \div size
             offset == Head(keys) % size
             fetch == ~Truthy(page) \/ Page_index(page) # idx
             r == _index(cur, idx)
             pg == IF fetch THEN r.result.page ELSE page
             cur1 == IF fetch THEN r.current ELSE cur
             reqs1 == IF fetch THEN reqs \o r.issued ELSE reqs
         IN
         IF fetch /\ r.result.kind = "raise"
         THEN [result |-> r.result, current |-> r.current, issued |-> reqs1]
         ELSE IF item_at(pg.items, offset).kind = "raise"
         THEN [result |-> item_at(pg.items, offset), current |-> cur1,
               issued |-> reqs1]
         ELSE item_each(cur1, Tail(keys), pg,
                        Append(items, item_at(pg.items, offset).item), reqs1)

\* PaginationMixin._slice(key) called with pagination._current = cur
PaginationMixin_slice(cur, sl) ==
    IF sl.step = <<0>>
    THEN [result |-> RRaise("TypeError"), current |-> cur, issued |-> <<>>]
    ELSE LET c == PaginationMixin_count_of(cur)
             ix == slice_indices(sl, c.value)
         IN item_each(cur, xrange(ix.start, ix.stop, ix.step), NoPage, <<>>,
                      c.issued)

\* PaginationMixin.__getitem__ with a slice key
PaginationMixin_getslice(sl) ==
    /\ current' = PaginationMixin_slice(current, sl).current
    /\ hops' = IF Truthy(current) THEN hops ELSE 0
    /\ Record("mixin_slice", sl, PaginationMixin_slice(current, sl).result,
              PaginationMixin_slice(current, sl).issued)
    /\ UNCHANGED <<total, size, gen>>

Next ==
    \/ Pagination_first
    \/ Pagination_count
    \/ Pagination_current
    \/ Pagination_one
    \/ Pagination_previous
    \/ Pagination_next
    \/ \E k \in -MaxKey .. MaxKey : Pagination_getitem(k)
    \/ Pagination_iter_start
    \/ Pagination_iter_resume
    \/ PaginationMixin_all
    \/ PaginationMixin_one
    \/ PaginationMixin_count
    \/ PaginationMixin_first
    \/ \E k \in -MaxKey .. MaxKey : PaginationMixin_getitem(k)

Spec == Init /\ [][Next]_vars

\* Iterating a Pagination, of an endpoint of either kind, by a consumer
\* that keeps asking for the next page
InitChain ==
    /\ total \in 0 .. MaxItems
    /\ size \in 1 .. MaxSize
    /\ current = NoPage
    /\ gen = [pc |-> "idle", page |-> NoPage, out |-> <<>>, was |-> NoPage]
    /\ call = "init"
    /\ key = 0
    /\ before = NoPage
    /\ result = RNone
    /\ issued = <<>>
    /\ hops = 0
    /\ objects = [i \in Instances |-> NoObject]
    /\ props = [c \in Classes |-> EmptyDict]
    /\ log = [i \in Instances |-> NoLog]
    /\ client = NewClient
    /\ exchange = NoRequest
    /\ query = NoQuery
    /\ defined = NoClasses
    /\ server \in {Honest, Looping}

NextChain ==
    \/ Pagination_first
    \/ Pagination_iter_start
    \/ Pagination_iter_resume

SpecChain == InitChain /\ [][NextChain]_vars /\ WF_vars(Pagination_iter_resume)

\* Slicing a Pagination whose cursor first(), next() and previous() move
NextPageSlice ==
    \/ Pagination_first
    \/ Pagination_previous
    \/ Pagination_next
    \/ \E sl \in Slices : Pagination_getslice(sl)

SpecPageSlice == Init /\ [][NextPageSlice]_vars

\* Slicing a Query / ResourceCollection whose cursor first(), next() and
\* previous() move
NextItemSlice ==
    \/ Pagination_first
    \/ Pagination_previous
    \/ Pagination_next
    \/ \E sl \in Slices : PaginationMixin_getslice(sl)

SpecItemSlice == Init /\ [][NextItemSlice]_vars

-----------------------------------------------------------------------------
\* Resources: values

\* None, a string, a dict, a list
None == [kind |-> "NoneType"]
Str(s) == [kind |-> "str", s |-> s]
Dict(d) == [kind |-> "dict", d |-> d]
List(l) == [kind |-> "list", l |-> l]

\* The object cls(**fields)
Instance(cls, fields) == [kind |-> "resource", cls |-> cls, fields |-> fields]

\* ResourceCollection(resource_cls, uri, page): page is None or the payload
\* of its first page
ResourceCollection(uri, page) == [kind |-> "collection", uri |-> uri, page |-> page]

\* Results of an operation on a resource
RGot(v) == [kind |-> "value", value |-> v]
RValueError(cls, expected, got) ==
    [kind |-> "raise", error |-> "ValueError", message |-> <<cls, expected, got>>]

\* Requests
Get(uri) == [method |-> "GET", uri |-> uri]
Put(uri, data) == [method |-> "PUT", uri |-> uri, data |-> data]
Post(uri, data) == [method |-> "POST", uri |-> uri, data |-> data]

\* The class attribute `type` and the root of `uri_gen` of each class
cls_type(cls) ==
    CASE cls = "Resource" -> None
      [] cls = "Resource1" -> Str("one")
      [] cls = "Resource2" -> Str("two")
      [] cls = "Page" -> Str("page")

root_uri(cls) ==
    CASE cls = "Resource" -> None
      [] cls = "Resource1" -> Str("/v2/1s")
      [] cls = "Resource2" -> Str("/v2/2s")

\* The registry _ResourceMeta fills when the classes are defined
registry == ("one" :> "Resource1") @@ ("two" :> "Resource2") @@ ("page" :> "Page")

\* ResourceRegistry.match: <<cls>>, or <<>> for LookupError
match(t) == IF t \in DOMAIN registry THEN <<registry[t]>> ELSE <<>>

\* The names of the lazy link properties and of the fields holding link uris
PropertyKeys == {"two"}
UriKeys == {"two_uri", "alt_uri"}

\* key.startswith('_'), over the keys payloads and instances hold
startswith_underscore(k) == k \in {"_type", "_uris"} \cup {"_" \o p : p \in PropertyKeys}

-----------------------------------------------------------------------------
\* Resources: _ObjectifyMixin

\* _ObjectifyMixin._load(resource_cls, value), called by a Resource class
RECURSIVE _load(_)
_load(value) ==
    LET typed == value.kind = "dict" /\ "_type" \in DOMAIN value.d
        cls == IF typed THEN match(value.d["_type"].s) ELSE <<>>
    IN
    IF cls = <<"Page">> THEN ResourceCollection(value.d["uri"], value)
    ELSE IF cls # <<>> THEN Instance(cls[1], value.d)
    ELSE IF value.kind = "dict"
    THEN Dict([k \in DOMAIN value.d |-> _load(value.d[k])])
    ELSE IF value.kind = "list"
    THEN List([j \in DOMAIN value.l |-> _load(value.l[j])])
    ELSE value

\* hasattr(cls, property_key): a property installed on the class or on its
\* base class Resource
hasattr(ps, cls, property_key) ==
    property_key \in DOMAIN ps[cls] \/ property_key \in DOMAIN ps["Resource"]

\* The property the attribute lookup finds: the class's own before the base's
class_property(ps, cls, property_key) ==
    IF property_key \in DOMAIN ps[cls] THEN ps[cls][property_key]
    ELSE ps["Resource"][property_key]

\* _ObjectifyMixin._lazy_load: the properties of the classes afterwards
_lazy_load(ps, cls, property_cls, uri_key, property_key) ==
    IF hasattr(ps, cls, property_key) THEN ps
    ELSE [ps EXCEPT ![cls] =
            (property_key :> [property_cls |-> property_cls, uri_key |-> uri_key]) @@ @]

\* The type check at the head of _objectify, taken for every class
TypeMismatch_untyped(cls, fields) ==
    "_type" \in DOMAIN fields /\ fields["_type"] # cls_type(cls)

\* The type check at the head of _objectify
TypeMismatch(cls, fields) ==
    /\ cls_type(cls) # None
    /\ "_type" \in DOMAIN fields
    /\ fields["_type"] # cls_type(cls)

\* The keys of the payload its _uris table declares as links
links(fields) ==
    IF "_uris" \in DOMAIN fields
    THEN DOMAIN fields \cap DOMAIN fields["_uris"].d
    ELSE {}

\* The loop of _objectify over the link keys: the properties of the classes
\* afterwards.  The payloads name a property from one link key at most, so
\* the order of the loop does not show.
RECURSIVE attach(_, _, _, _)
attach(ps, cls, fields, keys) ==
    IF keys = {} THEN ps
    ELSE LET k == CHOOSE x \in keys : TRUE
             _uri == fields["_uris"].d[k].d
             property_cls == match(_uri["_type"].s)
             ps1 == IF property_cls = <<>> THEN ps
                    ELSE _lazy_load(ps, cls, property_cls[1], k, _uri["key"].s)
         IN attach(ps1, cls, fields, keys \ {k})

\* The loop of _objectify: the __dict__ of the new instance.  No payload
\* carries a key named as a link property.
setattr_each(fields) ==
    [k \in DOMAIN fields |->
        IF k \in links(fields) \/ startswith_underscore(k)
        THEN fields[k]
        ELSE _load(fields[k])]

\* _ObjectifyMixin._objectify(cls, **fields) on a new instance of cls
_objectify(ps, cls, fields) ==
    IF TypeMismatch(cls, fields)
    THEN [raise |-> <<RValueError(cls, cls_type(cls), fields["_type"])>>,
          dict |-> EmptyDict, props |-> ps]
    ELSE [raise |-> <<>>, dict |-> setattr_each(fields),
          props |-> attach(ps, cls, fields, links(fields))]

\* '_' + property_key
cached_key(property_key) == "_" \o property_key

\* The getter _lazy_load installs, with its closure p = (property_cls,
\* uri_key), read on an instance whose __dict__ is d; resp is the payload the
\* server answers with if the getter asks.
_getter(p, d, property_key, resp) ==
    IF cached_key(property_key) \in DOMAIN d
    THEN [result |-> RGot(d[cached_key(property_key)]), dict |-> d, issued |-> <<>>]
    ELSE IF p.uri_key \notin DOMAIN d
    THEN [result |-> RRaise("AttributeError"), dict |-> d, issued |-> <<>>]
    ELSE LET uri == d[p.uri_key]
             asks == uri # None /\ p.property_cls # "Page"
             value == IF uri = None THEN None
                      ELSE IF p.property_cls = "Page"
                      THEN ResourceCollection(uri, None)
                      ELSE Instance(p.property_cls, resp)
         IN
         IF asks /\ TypeMismatch(p.property_cls, resp)
         THEN [result |-> RValueError(p.property_cls, cls_type(p.property_cls),
                                      resp["_type"]),
               dict |-> d, issued |-> <<Get(uri)>>]
         ELSE [result |-> RGot(value),
               dict |-> (cached_key(property_key) :> value) @@ d,
               issued |-> IF asks THEN <<Get(uri)>> ELSE <<>>]

\* A setter that leaves a value already cached alone
_setter_once(d, property_key, value) ==
    IF cached_key(property_key) \in DOMAIN d THEN d
    ELSE (cached_key(property_key) :> value) @@ d

\* The setter _lazy_load installs
_setter(d, property_key, value) == (cached_key(property_key) :> value) @@ d

\* self.<property_key> on an instance of cls: the property's getter when
\* the class has the property, AttributeError otherwise (no instance holds a
\* plain attribute of that name)
getattr_link(ps, cls, d, property_key, resp) ==
    IF hasattr(ps, cls, property_key)
    THEN _getter(class_property(ps, cls, property_key), d, property_key, resp)
    ELSE [result |-> RRaise("AttributeError"), dict |-> d, issued |-> <<>>]

-----------------------------------------------------------------------------
\* Resources: operations

\* Every operation on a resource records what it was called with, the
\* instance and its log as they were, and what came of it.
RecordResource(name, i, data, res, reqs) ==
    /\ call' = name
    /\ key' = [obj |-> i, data |-> data]
    /\ before' = [object |-> objects[i], log |-> log[i]]
    /\ result' = res
    /\ issued' = reqs
    /\ UNCHANGED <<total, size, current, gen, hops, client, exchange, query,
                   defined, server>>

RSelf(i) == [kind |-> "self", obj |-> i]

\* self.__dict__.update(instance.__dict__) without the clear() before it
rematerialize_update(old, new) == new @@ old

\* self.__dict__.clear(); self.__dict__.update(instance.__dict__)
rematerialize(old, new) == new

\* i = cls(**fields)
Resource_init(i, cls, fields) ==
    LET o == _objectify(props, cls, fields) IN
    /\ objects' = IF o.raise = <<>>
                  THEN [objects EXCEPT ![i] = [cls |-> cls, dict |-> o.dict]]
                  ELSE objects
    /\ props' = o.props
    /\ log' = IF o.raise = <<>> THEN [log EXCEPT ![i] = NoLog] ELSE log
    /\ RecordResource("new", i, [cls |-> cls, fields |-> fields],
                      IF o.raise = <<>> THEN RSelf(i) ELSE o.raise[1], <<>>)

\* i = cls.get(uri), the server answering with resp
Resource_get(i, cls, uri, resp) ==
    LET o == _objectify(props, cls, resp) IN
    /\ objects' = IF o.raise = <<>>
                  THEN [objects EXCEPT ![i] = [cls |-> cls, dict |-> o.dict]]
                  ELSE objects
    /\ props' = o.props
    /\ log' = IF o.raise = <<>> THEN [log EXCEPT ![i] = NoLog] ELSE log
    /\ RecordResource("get", i, [cls |-> cls, fields |-> resp],
                      IF o.raise = <<>> THEN RSelf(i) ELSE o.raise[1],
                      <<Get(uri)>>)

\* The request of save() or refresh() failing: what client.get / put /
\* post raises for an error status (error_cls), a redirect not followed, a
\* failure of the transport, a body that does not decode
Failure(error) == [raise |-> error]
Failures == {Failure(e) : e \in {"Error", "Redirection", "ConnectionError",
                                 "Exception"}}
failed(resp) == "raise" \in DOMAIN resp

\* Resource.refresh with the __dict__ cleared before the request is made
refresh_clears_first(ps, cls, d, resp) ==
    LET o == _objectify(ps, cls, resp) IN
    IF "uri" \notin DOMAIN d
    THEN [result |-> <<RRaise("AttributeError")>>, dict |-> d, props |-> ps,
          issued |-> <<>>]
    ELSE IF failed(resp)
    THEN [result |-> <<RRaise(resp.raise)>>, dict |-> EmptyDict, props |-> ps,
          issued |-> <<Get(d["uri"])>>]
    ELSE IF o.raise # <<>>
    THEN [result |-> o.raise, dict |-> EmptyDict, props |-> ps,
          issued |-> <<Get(d["uri"])>>]
    ELSE [result |-> <<>>, dict |-> rematerialize(d, o.dict), props |-> o.props,
          issued |-> <<Get(d["uri"])>>]

\* Resource.refresh on an instance of cls with __dict__ d; resp is the
\* payload the server answers with, or the failure of the request
refresh(ps, cls, d, resp) ==
    LET o == _objectify(ps, cls, resp) IN
    IF "uri" \notin DOMAIN d
    THEN [result |-> <<RRaise("AttributeError")>>, dict |-> d, props |-> ps,
          issued |-> <<>>]
    ELSE IF failed(resp)
    THEN [result |-> <<RRaise(resp.raise)>>, dict |-> d, props |-> ps,
          issued |-> <<Get(d["uri"])>>]
    ELSE IF o.raise # <<>>
    THEN [result |-> o.raise, dict |-> d, props |-> ps,
          issued |-> <<Get(d["uri"])>>]
    ELSE [result |-> <<>>, dict |-> rematerialize(d, o.dict), props |-> o.props,
          issued |-> <<Get(d["uri"])>>]

\* i.refresh(), the server answering with resp
Resource_refresh(i, resp) ==
    /\ objects[i] # NoObject
    /\ LET r == refresh(props, objects[i].cls, objects[i].dict, resp) IN
       /\ objects' = [objects EXCEPT ![i].dict = r.dict]
       /\ props' = r.props
       /\ log' = IF r.result = <<>> THEN [log EXCEPT ![i] = NoLog] ELSE log
       /\ RecordResource("refresh", i, [cls |-> objects[i].cls, fields |-> resp],
                         IF r.result = <<>> THEN RSelf(i) ELSE r.result[1],
                         r.issued)

\* The request body of save() without the filter on the values
save_attrs_all(d) == [k \in DOMAIN d \ {"uri"} |-> d[k]]

\* The request body of save(): the fields but uri and but the values that
\* are a Resource or a ResourceCollection
save_attrs(d) ==
    [k \in {x \in DOMAIN d \ {"uri"} : d[x].kind \notin {"resource", "collection"}}
        |-> d[k]]

\* Resource.save on an instance of cls with __dict__ d; resp is the payload
\* the server answers with, or the failure of the request
save(ps, cls, d, resp) ==
    LET uri == IF "uri" \in DOMAIN d THEN d["uri"] ELSE None
        o == _objectify(ps, cls, resp)
        request == IF uri = None
                   THEN Post(root_uri(cls), save_attrs(d))
                   ELSE Put(uri, save_attrs(d))
    IN
    IF uri = None /\ root_uri(cls) = None
    THEN [result |-> <<RRaise("TypeError")>>, dict |-> d, props |-> ps,
          issued |-> <<>>]
    ELSE IF failed(resp)
    THEN [result |-> <<RRaise(resp.raise)>>, dict |-> d, props |-> ps,
          issued |-> <<request>>]
    ELSE IF o.raise # <<>>
    THEN [result |-> o.raise, dict |-> d, props |-> ps, issued |-> <<request>>]
    ELSE [result |-> <<>>, dict |-> rematerialize(d, o.dict), props |-> o.props,
          issued |-> <<request>>]

\* i.save(), the server answering with resp
Resource_save(i, resp) ==
    /\ objects[i] # NoObject
    /\ LET r == save(props, objects[i].cls, objects[i].dict, resp) IN
       /\ objects' = [objects EXCEPT ![i].dict = r.dict]
       /\ props' = r.props
       /\ log' = IF r.result = <<>> THEN [log EXCEPT ![i] = NoLog] ELSE log
       /\ RecordResource("save", i, [cls |-> objects[i].cls, fields |-> resp],
                         IF r.result = <<>> THEN RSelf(i) ELSE r.result[1],
                         r.issued)

\* i.<property_key>, the server answering with resp if asked
Resource_getattr(i, property_key, resp) ==
    /\ objects[i] # NoObject
    /\ LET r == getattr_link(props, objects[i].cls, objects[i].dict,
                             property_key, resp)
           first == log[i].how = "none" /\ r.result.kind = "value"
       IN
       /\ objects' = [objects EXCEPT ![i].dict = r.dict]
       /\ log' = [log EXCEPT ![i] =
                    [how |-> IF first THEN "read" ELSE @.how,
                     held |-> IF first THEN r.result.value ELSE @.held,
                     resolved |-> @.resolved \/ first,
                     touched |-> @.touched]]
       /\ RecordResource("getattr", i, property_key, r.result, r.issued)
    /\ UNCHANGED props

\* i.<property_key> = value, for a link property of the class of i
Resource_setattr_link(i, property_key, value) ==
    /\ objects[i] # NoObject
    /\ hasattr(props, objects[i].cls, property_key)
    /\ objects' = [objects EXCEPT ![i].dict = _setter(@, property_key, value)]
    /\ log' = [log EXCEPT ![i] =
                 [how |-> "assigned", held |-> value, resolved |-> @.resolved,
                  touched |-> FALSE]]
    /\ RecordResource("setattr_link", i, property_key, RGot(value), <<>>)
    /\ UNCHANGED props

\* i.<k> = value, for a field that is no link property
Resource_setattr(i, k, value) ==
    /\ objects[i] # NoObject
    /\ objects' = [objects EXCEPT ![i].dict = (k :> value) @@ @]
    /\ log' = [log EXCEPT ![i].touched = @ \/ log[i].how # "none"]
    /\ RecordResource("setattr", i, k, RGot(value), <<>>)
    /\ UNCHANGED props

-----------------------------------------------------------------------------
\* Resources: the payloads tried and the specifications

\* An optional field of a payload
Field(k, opt) == IF opt = <<>> THEN EmptyDict ELSE (k :> opt[1])

\* The _uris table declaring the field uri_key as a link to a t, to be read
\* as the property property_key
LinkDecl(uri_key, t, property_key) ==
    Dict(uri_key :> Dict(("_type" :> Str(t)) @@ ("key" :> Str(property_key))))

MemberUri == Str("/v2/1s/id")
LinkUri == Str("/v2/2s/id")
OtherUri == Str("/v2/2s/other")

\* Payloads of a Resource1 with no link, or with one link that is read as
\* the property "two": held by either uri field, to a member type, to the
\* page type or to a type nobody registered, the uri null or not
LinkPayloads ==
    {("_type" :> Str("one")) @@ ("uri" :> MemberUri)} \cup
    {("_type" :> Str("one")) @@ ("uri" :> MemberUri)
        @@ ("_uris" :> LinkDecl(k, t, "two")) @@ (k :> u) :
        k \in UriKeys, t \in {"two", "page", "zed"}, u \in {None, LinkUri}}

\* What the server answers to the GET of a link: a "two", a payload with no
\* type, a "one"
LinkResponses ==
    {("_type" :> Str("two")) @@ ("uri" :> LinkUri) @@ ("name" :> Str("a")),
     ("uri" :> LinkUri) @@ ("name" :> Str("b")),
     ("_type" :> Str("one")) @@ ("uri" :> LinkUri)}

\* Nested values: a dict of a type nobody registered holding a registered
\* member, a registered member, a page, a list of a dict of no known type
Nested ==
    {Dict(("_type" :> Str("zed"))
            @@ ("inner" :> Dict(("_type" :> Str("two")) @@ ("uri" :> LinkUri)))),
     Dict(("_type" :> Str("two")) @@ ("uri" :> LinkUri)),
     Dict(("_type" :> Str("page")) @@ ("uri" :> Str("/v2/2s"))),
     List(<<Dict(("_type" :> Str("zed")) @@ ("inner" :> Str("x")))>>)}

\* What the server answers to get, refresh and save: a plain payload of no
\* type, a "one" with or without a nested value, a "one" with a link and a
\* nested value, a plain "two", a plain page
Responses ==
    {("uri" :> MemberUri)} \cup
    {("_type" :> Str("one")) @@ ("uri" :> MemberUri) @@ Field("meta", m) :
        m \in Optional(Nested)} \cup
    {("_type" :> Str("one")) @@ ("uri" :> MemberUri) @@ ("meta" :> m)
        @@ ("_uris" :> LinkDecl("two_uri", "two", "two")) @@ ("two_uri" :> LinkUri) :
        m \in {Dict(("_type" :> Str("zed")) @@ ("inner" :> Str("x")))}} \cup
    {("_type" :> Str(t)) @@ ("uri" :> MemberUri) : t \in {"two", "page"}}

\* The keyword arguments the program makes a new instance from
NewFields ==
    {Field("uri", u) @@ Field("name", n) :
        u \in Optional({MemberUri}), n \in Optional({Str("a")})}

\* No instance yet, no property installed; the paging cursor stays as it is
InitResource ==
    /\ total = 0
    /\ size = 1
    /\ current = NoPage
    /\ gen = [pc |-> "idle", page |-> NoPage, out |-> <<>>, was |-> NoPage]
    /\ call = "init"
    /\ key = 0
    /\ before = NoPage
    /\ result = RNone
    /\ issued = <<>>
    /\ hops = 0
    /\ objects = [i \in Instances |-> NoObject]
    /\ props = [c \in Classes |-> EmptyDict]
    /\ log = [i \in Instances |-> NoLog]
    /\ client = NewClient
    /\ exchange = NoRequest
    /\ query = NoQuery
    /\ defined = NoClasses
    /\ server = Honest

\* One instance of Resource1 and its link property: made, refreshed, the
\* link read and assigned, other fields assigned
NextLink ==
    \/ \E fields \in LinkPayloads : Resource_init("r1", "Resource1", fields)
    \/ \E resp \in LinkPayloads : Resource_refresh("r1", resp)
    \/ \E p \in PropertyKeys, resp \in LinkResponses :
          Resource_getattr("r1", p, resp)
    \/ \E p \in PropertyKeys : Resource_setattr_link("r1", p, Str("own"))
    \/ \E k \in UriKeys :
          /\ objects["r1"] # NoObject
          /\ k \in DOMAIN objects["r1"].dict
          /\ Resource_setattr("r1", k, OtherUri)
    \/ Resource_setattr("r1", "name", Str("b"))

SpecLink == InitResource /\ [][NextLink]_vars

\* Two instances of Resource1, made in either order, and their link property
NextPair ==
    \/ \E i \in Instances, fields \in LinkPayloads :
          objects[i] = NoObject /\ Resource_init(i, "Resource1", fields)
    \/ \E i \in Instances, p \in PropertyKeys, resp \in LinkResponses :
          Resource_getattr(i, p, resp)

SpecPair == InitResource /\ [][NextPair]_vars

\* One instance of Resource or Resource1: get, refresh, save
NextSave ==
    \/ \E cls \in Classes, fields \in NewFields : Resource_init("r1", cls, fields)
    \/ \E cls \in Classes, resp \in Responses :
          Resource_get("r1", cls, MemberUri, resp)
    \/ \E resp \in Responses \cup Failures : Resource_refresh("r1", resp)
    \/ \E resp \in Responses \cup Failures : Resource_save("r1", resp)
    \/ \E resp \in LinkResponses : Resource_getattr("r1", "two", resp)
    \/ Resource_setattr("r1", "name", Str("b"))

SpecSave == InitResource /\ [][NextSave]_vars

-----------------------------------------------------------------------------
\* Client: the configuration scope

\* threading.local: the attributes of the Client object that thread t sees
\* are its own
storage_shared(t) == "t1"
storage(t) == t

\* self.config of thread t: its own attribute when it has set one, else the
\* class attribute
Client_config(cl, t) ==
    IF cl.attr[storage(t)].config = Unset THEN ClassConfig
    ELSE cl.attr[storage(t)].config

\* What a Config holds: its headers, its hook lists, its timeout
Config_value(h, c) ==
    [headers |-> h[h[c].headers],
     before_request |-> h[h[c].before_request],
     after_request |-> h[h[c].after_request],
     timeout |-> h[c].timeout]

\* Config.copy, the copy being object c: a new Config whose headers are a
\* copy of the dict, whose hook lists are copies of the lists, and whose
\* other attributes are the same values
Config_copy_shared(h, self, c) ==
    (c :> [headers |-> h[self].headers,
           before_request |-> Part(c.by, c.depth, "before_request"),
           after_request |-> Part(c.by, c.depth, "after_request"),
           timeout |-> h[self].timeout])
    @@ (Part(c.by, c.depth, "before_request") :> h[h[self].before_request])
    @@ (Part(c.by, c.depth, "after_request") :> h[h[self].after_request])
    @@ h
Config_copy(h, self, c) ==
    (c :> [headers |-> Part(c.by, c.depth, "headers"),
           before_request |-> Part(c.by, c.depth, "before_request"),
           after_request |-> Part(c.by, c.depth, "after_request"),
           timeout |-> h[self].timeout])
    @@ (Part(c.by, c.depth, "headers") :> h[h[self].headers])
    @@ (Part(c.by, c.depth, "before_request") :> h[h[self].before_request])
    @@ (Part(c.by, c.depth, "after_request") :> h[h[self].after_request])
    @@ h

\* The objects that are still referenced once Config c is dropped
collect(h, c) ==
    [o \in {o \in DOMAIN h : ~(o.by = c.by /\ o.depth = c.depth)} |-> h[o]]

\* How many scopes deep thread t is
depth(cl, t) == Len(cl.entered[t])

\* Every operation on the client records the thread, what its live
\* configuration held and which configurations were live when it entered
\* the scopes it is in, and what came of the operation.
RecordClient(name, t, res) ==
    /\ call' = name
    /\ key' = [thread |-> t]
    /\ before' = [config |-> Config_value(client.heap, Client_config(client, t)),
                  entered |-> client.entered[t]]
    /\ result' = res
    /\ issued' = <<>>
    /\ UNCHANGED <<total, size, current, gen, hops, objects, props, log,
                   exchange, query, defined, server>>

\* Client.__enter__, first statement: self._configs.append(self.config)
Client___enter___append(t) ==
    /\ client.pc[t] = "idle"
    /\ depth(client, t) < MaxDepth
    /\ LET live == Client_config(client, t)
           s == storage(t)
       IN client' =
            [client EXCEPT
               !.attr[s]._configs = Append(@, live),
               !.pc[t] = "entering",
               !.entered[t] = Append(@, [id |-> live,
                                         value |-> Config_value(client.heap, live)])]
    /\ RecordClient("__enter__ append", t, RNone)

\* Client.__enter__, second statement: self.config = self.config.copy()
Client___enter___copy(t) ==
    /\ client.pc[t] = "entering"
    /\ LET live == Client_config(client, t)
           s == storage(t)
           c == Part(s, Len(client.attr[s]._configs), "Config")
       IN client' =
            [client EXCEPT
               !.heap = Config_copy(client.heap, live, c),
               !.attr[s].config = c,
               !.pc[t] = "idle"]
    /\ RecordClient("__enter__", t, RNone)

\* Client.__exit__: self.config = self._configs.pop(), whether the body of
\* the scope ended normally or raised
Client___exit__(t, raised) ==
    /\ client.pc[t] = "idle"
    /\ depth(client, t) > 0
    /\ LET s == storage(t)
           live == Client_config(client, t)
           saved == client.attr[s]._configs
       IN /\ Len(saved) > 0
          /\ client' =
               [client EXCEPT
                  !.heap = IF live = saved[Len(saved)] \/ live = ClassConfig
                           THEN @ ELSE collect(@, live),
                  !.attr[s].config = saved[Len(saved)],
                  !.attr[s]._configs = SubSeq(saved, 1, Len(saved) - 1),
                  !.entered[t] = SubSeq(@, 1, Len(@) - 1)]
    /\ RecordClient("__exit__", t, IF raised THEN RRaise("Exception") ELSE RNone)

\* client.config.headers[k] = v by thread t
Config_set_header(t, k) ==
    /\ client.pc[t] = "idle"
    /\ LET live == Client_config(client, t)
           d == client.heap[live].headers
       IN client' = [client EXCEPT
                       !.heap = (d :> ((k :> Tag(t, depth(client, t))) @@ @[d])) @@ @]
    /\ RecordClient("set header", t, RNone)

\* client.config.before_request.append(hook) by thread t
Config_append_hook(t) ==
    /\ client.pc[t] = "idle"
    /\ LET live == Client_config(client, t)
           l == client.heap[live].before_request
       IN /\ Len(client.heap[l]) < MaxHooks
          /\ client' = [client EXCEPT
                          !.heap = (l :> Append(@[l], Tag(t, depth(client, t)))) @@ @]
    /\ RecordClient("append hook", t, RNone)

\* client.config.timeout = v by thread t
Config_set_timeout(t) ==
    /\ client.pc[t] = "idle"
    /\ LET live == Client_config(client, t)
       IN client' = [client EXCEPT
                       !.heap = (live :> [@[live] EXCEPT
                                            !.timeout = Tag(t, depth(client, t))]) @@ @]
    /\ RecordClient("set timeout", t, RNone)

\* The configuration a request of thread t works with: Client._op reads
\* self.config for the headers, the timeout and the hooks
Client_op_config(t) ==
    /\ client.pc[t] = "idle"
    /\ UNCHANGED client
    /\ RecordClient("request", t,
                    [kind |-> "config",
                     config |-> Config_value(client.heap, Client_config(client, t))])

\* One thread: scopes entered and left, the live configuration changed
NextScope ==
    \/ Client___enter___append("t1")
    \/ Client___enter___copy("t1")
    \/ \E raised \in BOOLEAN : Client___exit__("t1", raised)
    \/ Config_set_header("t1", "X-Custom")
    \/ Config_append_hook("t1")
    \/ Config_set_timeout("t1")
    \/ Client_op_config("t1")

SpecScope == InitResource /\ [][NextScope]_vars

\* Two threads on the one Client, in every interleaving
NextThreads ==
    \/ \E t \in Threads : Client___enter___append(t)
    \/ \E t \in Threads : Client___enter___copy(t)
    \/ \E t \in Threads, raised \in BOOLEAN : Client___exit__(t, raised)
    \/ \E t \in Threads : Config_set_header(t, "X-Custom")
    \/ \E t \in Threads : Client_op_config(t)

SpecThreads == InitResource /\ [][NextThreads]_vars

-----------------------------------------------------------------------------
\* Error: the default error_cls

Number(n) == [kind |-> "int", n |-> n]

\* bool(v) of a value of a decoded body
truth(v) ==
    CASE v.kind = "NoneType" -> FALSE
      [] v.kind = "str" -> v.s # ""
      [] v.kind = "int" -> v.n # 0
      [] OTHER -> TRUE

\* str(v)
str(v) ==
    CASE v.kind = "str" -> v.s
      [] v.kind = "int" -> ToString(v.n)
      [] OTHER -> "None"

\* sep.join(parts)
RECURSIVE join(_, _)
join(sep, parts) ==
    IF parts = <<>> THEN ""
    ELSE IF Len(parts) = 1 THEN parts[1]
    ELSE parts[1] \o sep \o join(sep, Tail(parts))

\* [x for x in l if x]
RECURSIVE if_truthy(_)
if_truthy(l) ==
    IF l = <<>> THEN <<>>
    ELSE IF truth(l[1]) THEN <<l[1]>> \o if_truthy(Tail(l))
    ELSE if_truthy(Tail(l))

\* str(v) for v in l
str_each(l) == [n \in 1 .. Len(l) |-> str(l[n])]

\* httplib.responses: the reason phrases of the status codes it knows
httplib_responses ==
    (200 :> "OK") @@ (301 :> "Moved Permanently")
    @@ (400 :> "Bad Request") @@ (402 :> "Payment Required")
    @@ (500 :> "Internal Server Error")

\* getattr(requests_ex.response, 'data', {})
response_data(response) ==
    IF response.data = <<>> THEN Dict(EmptyDict) ELSE response.data[1]

\* d.pop(k, default): the value, and the dict without the key
pop(d, k, default) ==
    IF k \in DOMAIN d
    THEN [value |-> d[k], d |-> [j \in DOMAIN d \ {k} |-> d[j]]]
    ELSE [value |-> default, d |-> d]

\* Error.format_message: the message, or what it raises, and the body as
\* the pops leave it (the error's constructor reads the same object again)
format_message(response) ==
    LET data == response_data(response)
    IN IF response.status_code \notin DOMAIN httplib_responses
       THEN [raise |-> <<"KeyError">>, message |-> "", data |-> data]
       ELSE IF data.kind # "dict"
       THEN [raise |-> <<IF data.kind = "list" THEN "TypeError"
                         ELSE "AttributeError">>,
             message |-> "", data |-> data]
       ELSE LET status == pop(data.d, "status",
                              Str(httplib_responses[response.status_code]))
                status_code == pop(status.d, "status_code",
                                   Number(response.status_code))
                desc == pop(status_code.d, "description", None)
            IN [raise |-> <<>>,
                message |-> join(": ", str_each(if_truthy(
                               <<status.value, status_code.value, desc.value>>))),
                data |-> Dict(desc.d)]

\* Error(requests_ex): the exception object, or what the constructor raises
Error(response) ==
    LET m == format_message(response)
    IN IF m.raise # <<>> THEN RRaise(m.raise[1])
       ELSE [kind |-> "raise", error |-> "Error", message |-> m.message,
             attrs |-> m.data.d @@ ("status_code" :> Number(response.status_code))]

\* The decoded bodies of error responses: none (no Content-Type), dicts
\* with and without the keys of the message, a list, null
Bodies ==
    {Dict(s @@ c @@ d @@ a) :
        s \in {EmptyDict, "status" :> Str("Bad Request"), "status" :> Str("")},
        c \in {EmptyDict, "status_code" :> Str("400")},
        d \in {EmptyDict, "description" :> Str("Invalid field")},
        a \in {EmptyDict, "additional" :> Str("field")}}
    \cup {List(<<Str("Invalid field")>>), None}

ErrorResponses ==
    {[status_code |-> n, data |-> b] :
        n \in {400, 402, 429, 500}, b \in Optional(Bodies)}

\* Every call of the error class records the response and what came of it.
Error___init__ ==
    /\ exchange.kind = "HTTPError"
    /\ exchange' = [kind |-> "Error", response |-> exchange.response]
    /\ call' = "Error"
    /\ key' = 0
    /\ before' = NoPage
    /\ result' = Error(exchange.response)
    /\ issued' = <<>>
    /\ UNCHANGED <<total, size, current, gen, hops, objects, props, log,
                   client, query, defined, server>>

\* An HTTPError with an error response is at hand
InitError ==
    /\ total = 0
    /\ size = 1
    /\ current = NoPage
    /\ gen = [pc |-> "idle", page |-> NoPage, out |-> <<>>, was |-> NoPage]
    /\ call = "init"
    /\ key = 0
    /\ before = NoPage
    /\ result = RNone
    /\ issued = <<>>
    /\ hops = 0
    /\ objects = [i \in Instances |-> NoObject]
    /\ props = [c \in Classes |-> EmptyDict]
    /\ log = [i \in Instances |-> NoLog]
    /\ client = NewClient
    /\ exchange \in {[kind |-> "HTTPError", response |-> r] : r \in ErrorResponses}
    /\ query = NoQuery
    /\ defined = NoClasses
    /\ server = Honest

NextError == Error___init__

SpecError == InitError /\ [][NextError]_vars

-----------------------------------------------------------------------------
\* Client._op: one request

\* d.update(other)
update(d, other) == other @@ d

\* requests.sessions.REDIRECT_STATI
REDIRECT_STATI == {301, 302, 303, 307}
is_redirect_never(status_code) == FALSE
is_redirect(status_code) == status_code \in REDIRECT_STATI

\* The kwargs Client.get / Client.post hand to _op: post sets the
\* Content-Type header to the mime type of the serialized data
Client_kwargs(method, kwargs) ==
    IF method = "POST"
    THEN [kwargs EXCEPT !.headers = ("Content-Type" :> "application/json") @@ @]
    ELSE kwargs

\* handler(method, url, kwargs) of a before_request hook.  The hooks a and
\* b of the application set a header of their own in kwargs.  The hook of
\* Config(echo=True), _echo_request(method, url, **kwargs), takes two
\* positional arguments: calling it with three raises TypeError before its
\* body runs.
call_before(handler, method, url, kwargs) ==
    IF handler = "_echo_request"
    THEN [raise |-> <<"TypeError">>, kwargs |-> kwargs]
    ELSE [raise |-> <<>>,
          kwargs |-> [kwargs EXCEPT !.headers = (("X-" \o handler) :> handler) @@ @]]

\* for handler in self.config.before_request: handler(method, url, kwargs)
RECURSIVE before_each(_, _, _, _, _)
before_each(handlers, method, url, kwargs, events) ==
    IF handlers = <<>>
    THEN [raise |-> <<>>, kwargs |-> kwargs, events |-> events]
    ELSE LET r == call_before(handlers[1], method, url, kwargs)
         IN IF r.raise # <<>>
            THEN [raise |-> r.raise, kwargs |-> kwargs, events |-> events]
            ELSE before_each(Tail(handlers), method, url, r.kwargs,
                    Append(events, [kind |-> "before", by |-> handlers[1],
                                    method |-> method, url |-> url,
                                    kwargs |-> kwargs]))

\* for handler in self.config.after_request: handler(response)
after_each(handlers, response) ==
    [n \in 1 .. Len(handlers) |->
        [kind |-> "after", by |-> handlers[n], response |-> response]]

\* Client._deserialize of the application: the decoded content, or an
\* exception for a content type it does not support
_deserialize(response) ==
    IF response.headers["Content-Type"] # "application/json"
    THEN [raise |-> <<"Exception">>, value |-> None]
    ELSE [raise |-> <<>>, value |-> response.content]

\* self.config.error_cls(ex)
error_cls(config, response) ==
    IF config.error_cls = "Error" THEN Error(response)
    ELSE [kind |-> "raise", error |-> config.error_cls, response |-> response]

\* Redirection(ex)
Redirection(response) ==
    [kind |-> "raise", error |-> "Redirection", response |-> response]

\* handle_error(ex): ex is the HTTPError and, when it has one, its response
handle_error(config, ex, events) ==
    IF ex.response = <<>>
    THEN [events |-> events, result |-> RRaise("AttributeError")]
    ELSE LET response == ex.response[1]
             decoded == IF "Content-Type" \in DOMAIN response.headers
                        THEN _deserialize(response)
                        ELSE [raise |-> <<>>, value |-> None]
             with_data == IF "Content-Type" \in DOMAIN response.headers
                          THEN [response EXCEPT !.data = <<decoded.value>>]
                          ELSE response
         IN IF decoded.raise # <<>>
            THEN [events |-> events, result |-> RRaise(decoded.raise[1])]
            ELSE [events |-> events \o after_each(config.after_request, with_data),
                  result |-> IF is_redirect(response.status_code)
                             THEN Redirection(with_data)
                             ELSE error_cls(config, with_data)]

\* response.raise_for_status() raises for a client or server error status
raise_for_status(response) == response.status_code >= 400

\* except requests.HTTPError
catches_any(error) == TRUE
catches(error) == error = "HTTPError"

\* Client._op(f, uri, **kwargs) with the transport's outcome: the hook and
\* transport calls it makes, in order, and what it returns or raises
_op(config, method, uri, kwargs, outcome) ==
    LET kw == [headers |-> update(kwargs.headers, config.headers),
               allow_redirects |-> IF kwargs.allow_redirects = <<>>
                                   THEN config.allow_redirects
                                   ELSE kwargs.allow_redirects[1]]
        url == config.root_url \o uri
        b == before_each(config.before_request, method, url, kw, <<>>)
        sent == Append(b.events, [kind |-> "transport", by |-> method,
                                  url |-> url, kwargs |-> b.kwargs])
    IN IF b.raise # <<>>
       THEN [events |-> b.events, result |-> RRaise(b.raise[1])]
       ELSE IF outcome.kind = "raise"
       THEN IF catches(outcome.error)
            THEN handle_error(config, [error |-> outcome.error, response |-> <<>>], sent)
            ELSE [events |-> sent, result |-> RRaise(outcome.error)]
       ELSE LET response == outcome.response
            IN IF \/ raise_for_status(response)
                  \/ is_redirect(response.status_code) /\ ~b.kwargs.allow_redirects
               THEN handle_error(config, [error |-> "HTTPError", response |-> <<response>>], sent)
               ELSE LET decoded == IF "Content-Type" \in DOMAIN response.headers
                                   THEN _deserialize(response)
                                   ELSE [raise |-> <<>>, value |-> None]
                        with_data == [response EXCEPT !.data = <<decoded.value>>]
                    IN IF decoded.raise # <<>>
                       THEN [events |-> sent, result |-> RRaise(decoded.raise[1])]
                       ELSE [events |-> sent \o after_each(config.after_request, with_data),
                             result |-> [kind |-> "response", response |-> with_data]]

\* The configurations of the requests: default headers, redirect policy,
\* hooks (of the application, of echo=True), error class
OpConfigs ==
    {[root_url |-> "http://ex.com", headers |-> ("User-Agent" :> "wac") @@ h,
      allow_redirects |-> a, before_request |-> b, after_request |-> f,
      error_cls |-> e] :
        h \in {EmptyDict, "X-Custom" :> "config", "Content-Type" :> "text/plain"},
        a \in BOOLEAN,
        b \in {<<>>, <<"a">>, <<"a", "b">>, <<"b", "a">>,
               <<"_echo_request">>, <<"_echo_request", "a">>},
        f \in {<<>>, <<"x", "y">>, <<"_echo_response", "x">>},
        e \in {"Error", "Custom"}}

\* The keyword arguments of the calls
OpKwargs ==
    {[headers |-> h, allow_redirects |-> a] :
        h \in {EmptyDict, "X-Custom" :> "call"}, a \in Optional({TRUE})}

\* What the transport does: a response (a status; no Content-Type, json or
\* an image), or a failure without a response
OpOutcomes ==
    {[kind |-> "response",
      response |-> [status_code |-> n, headers |-> h,
                    content |-> Dict("description" :> Str("Invalid field")),
                    data |-> <<>>]] :
        n \in {200, 301, 402, 500},
        h \in {EmptyDict, "Content-Type" :> "application/json",
               "Content-Type" :> "image/png"}}
    \cup {[kind |-> "raise", error |-> e] : e \in {"ConnectionError", "Timeout"}}

\* Client.get / Client.post: the request is made, its calls and its end
\* are recorded
Client_op ==
    /\ exchange.kind = "call"
    /\ LET r == _op(exchange.config, exchange.method, exchange.uri,
                    Client_kwargs(exchange.method, exchange.kwargs),
                    exchange.outcome)
       IN /\ exchange' = [exchange EXCEPT !.kind = "done", !.events = r.events]
          /\ result' = r.result
    /\ call' = "_op"
    /\ key' = 0
    /\ before' = NoPage
    /\ issued' = <<>>
    /\ UNCHANGED <<total, size, current, gen, hops, objects, props, log,
                   client, query, defined, server>>

\* A call of get or post is about to be made
InitOp ==
    /\ total = 0
    /\ size = 1
    /\ current = NoPage
    /\ gen = [pc |-> "idle", page |-> NoPage, out |-> <<>>, was |-> NoPage]
    /\ call = "init"
    /\ key = 0
    /\ before = NoPage
    /\ result = RNone
    /\ issued = <<>>
    /\ hops = 0
    /\ objects = [i \in Instances |-> NoObject]
    /\ props = [c \in Classes |-> EmptyDict]
    /\ log = [i \in Instances |-> NoLog]
    /\ client = NewClient
    /\ exchange \in {[kind |-> "call", config |-> c, method |-> m, uri |-> "/a",
                      kwargs |-> k, outcome |-> o, events |-> <<>>] :
                        c \in OpConfigs, m \in {"GET", "POST"},
                        k \in OpKwargs, o \in OpOutcomes}
    /\ query = NoQuery
    /\ defined = NoClasses
    /\ server = Honest

NextOp == Client_op

SpecOp == InitOp /\ [][NextOp]_vars

-----------------------------------------------------------------------------
\* Query

\* A query string is modelled as the sequence of its key=value pairs, a URI
\* as its path and its query string: urllib.quote_plus and the unquoting of
\* urlparse.parse_qs undo each other, so a pair is named by its unquoted
\* key and value.
Pair(k, v) == [kind |-> "tuple", k |-> k, v |-> v]
Uri(path, qs) == [path |-> path, qs |-> qs]

\* The keys of a query string, each once
keys_of(qs) == {qs[n].k : n \in 1 .. Len(qs)}

\* The values of the pairs of key k, in order
values_of(qs, k) ==
    LET of_k == SelectSeq(qs, LAMBDA e : e.k = k)
    IN [n \in 1 .. Len(of_k) |-> of_k[n].v]

\* urlparse.parse_qs(qs): a dict from each key to the list of its values in
\* order; pairs with a blank value are left out (keep_blank_values is off)
parse_qs(qs) ==
    LET kept == SelectSeq(qs, LAMBDA e : e.v # "")
    IN [k \in keys_of(kept) |-> values_of(kept, k)]

\* The orders in which a dict with keys S can be iterated
Orders(S) ==
    {o \in [1 .. Cardinality(S) -> S] :
        \A m, n \in 1 .. Cardinality(S) : m # n => o[m] # o[n]}

\* int(v) of the text of a query parameter
int(v) ==
    IF \E n \in -1 .. 9 : ToString(n) = v
    THEN [raise |-> <<>>, value |-> CHOOSE n \in -1 .. 9 : ToString(n) = v]
    ELSE [raise |-> <<"ValueError">>, value |-> 0]

\* Query._parse_uri, the loop over one key's values: sort values go to
\* sorts as they are, a limit becomes the page size, every other pair goes
\* to filters
RECURSIVE parse_values(_, _, _)
parse_values(k, vs, acc) ==
    IF vs = <<>> \/ acc.raise # <<>> THEN acc
    ELSE parse_values(k, Tail(vs),
            IF k = "sort" THEN [acc EXCEPT !.sorts = Append(@, Str(vs[1]))]
            ELSE IF k = "limit"
            THEN IF int(vs[1]).raise # <<>>
                 THEN [acc EXCEPT !.raise = int(vs[1]).raise]
                 ELSE IF int(vs[1]).value < 0
                 THEN [acc EXCEPT !.raise = <<"ValueError">>]
                 ELSE [acc EXCEPT !.page_size = int(vs[1]).value]
            ELSE [acc EXCEPT !.filters = Append(@, Pair(k, vs[1]))])

\* Query._parse_uri, the loop over the keys of the parsed query string in
\* the dict's order
RECURSIVE parse_keys(_, _, _)
parse_keys(parsed, order, acc) ==
    IF order = <<>> THEN acc
    ELSE parse_keys(parsed, Tail(order),
                    parse_values(order[1], parsed[order[1]], acc))

\* Query._parse_uri(uri, page_size), the dict being iterated in `order`
Query__parse_uri(uri, page_size, order) ==
    IF page_size <= 0
    THEN [raise |-> <<"ValueError">>, uri |-> uri.path, filters |-> <<>>,
          sorts |-> <<>>, page_size |-> page_size]
    ELSE parse_keys(parse_qs(uri.qs), order,
                    [raise |-> <<>>, uri |-> uri.path, filters |-> <<>>,
                     sorts |-> <<>>, page_size |-> page_size])

\* urllib.urlencode(query, doseq=True) of a list: the pairs of the query
\* string.  The first element must be a tuple; every element is unpacked
\* into key and value, which fails for a string (of a length other than 2).
urlencode(l) ==
    IF l # <<>> /\ l[1].kind # "tuple"
    THEN [raise |-> <<"TypeError">>, qs |-> <<>>]
    ELSE IF \E n \in 1 .. Len(l) : l[n].kind # "tuple"
    THEN [raise |-> <<"ValueError">>, qs |-> <<>>]
    ELSE [raise |-> <<>>, qs |-> l]

\* Query._qs
Query__qs(q) == urlencode(q.filters \o q.sorts)

\* The entry Query.filter appends for one argument: a FilterExpression
\* (field, op, value) or a keyword field=value
filter_entry(f) ==
    Pair(IF f.op = "=" THEN f.field ELSE f.field \o "[" \o f.op \o "]",
         join(",", f.value))

\* The entry Query.sort appends for a SortExpression (field, ascending)
sort_entry(s) ==
    Pair("sort", s.field \o "," \o (IF s.ascending THEN "asc" ELSE "desc"))

\* Pagination._parse_uri and Pagination.__init__ for the uri path?qs: the
\* query string is parsed into a dict, limit and offset are taken out, the
\* rest is encoded again key by key.  The cursor's uri is kept as that
\* dict (the order of its keys in the text is the dict's).
Pagination_init(path, qs, default_size) ==
    LET parsed == parse_qs(qs)
        many(k) == k \in DOMAIN parsed /\ Len(parsed[k]) > 1
        bad(k) == k \in DOMAIN parsed /\ int(parsed[k][1]).raise # <<>>
        limit == IF "limit" \in DOMAIN parsed THEN int(parsed["limit"][1]).value
                 ELSE 0
        rest == [k \in DOMAIN parsed \ {"limit", "offset"} |-> parsed[k]]
    IN IF many("limit") \/ bad("limit") \/ many("offset") \/ bad("offset")
       THEN [raise |-> <<"ValueError">>, value |-> NoPage]
       ELSE [raise |-> <<>>,
             value |-> [kind |-> "Pagination", path |-> path, params |-> rest,
                        size |-> IF limit # 0 THEN limit ELSE default_size,
                        current |-> NoPage]]

\* Every operation on the Query records the cursor the Query had and what
\* came of the operation.  The Query also remembers the URI it was made
\* from, how many times it was changed since, and whether a cursor that had
\* fetched a page was dropped.
RecordQuery(name, res) ==
    /\ call' = name
    /\ key' = 0
    /\ before' = IF query.kind = "Query" THEN query._pagination ELSE NoPage
    /\ result' = res
    /\ issued' = <<>>
    /\ UNCHANGED <<total, size, current, gen, hops, objects, props, log,
                   client, exchange, defined, server>>

\* Query(resource_cls, uri, page_size)
Query_init(uri, page_size, order) ==
    /\ query = NoQuery
    /\ LET parsed == Query__parse_uri(uri, page_size, order)
       IN IF parsed.raise # <<>>
          THEN /\ UNCHANGED query
               /\ RecordQuery("Query", RRaise(parsed.raise[1]))
          ELSE /\ query' = [kind |-> "Query", uri |-> parsed.uri,
                            filters |-> parsed.filters, sorts |-> parsed.sorts,
                            page_size |-> parsed.page_size,
                            _pagination |-> NoPage,
                            from |-> uri, changes |-> 0, dropped |-> FALSE]
               /\ RecordQuery("Query", RNone)

\* Pagination(resource_cls, uri, default_size): nothing of the Query
\* changes; the URI and what came of the construction are recorded
Pagination_new(uri, default_size) ==
    /\ call' = "Pagination"
    /\ key' = uri
    /\ before' = NoPage
    /\ result' = LET p == Pagination_init(uri.path, uri.qs, default_size)
                 IN IF p.raise # <<>> THEN RRaise(p.raise[1]) ELSE RGot(p.value)
    /\ issued' = <<>>
    /\ UNCHANGED <<total, size, current, gen, hops, objects, props, log,
                   client, exchange, query, defined, server>>

\* Query.filter(expression) / Query.filter(field=value)
Query_filter(f) ==
    /\ query.kind = "Query"
    /\ query.changes < MaxChanges
    /\ query' = [query EXCEPT !.filters = Append(@, filter_entry(f)),
                              !._pagination = NoPage,
                              !.changes = @ + 1,
                              !.dropped = @ \/ (query._pagination # NoPage
                                                /\ query._pagination.current # NoPage)]
    /\ RecordQuery("filter", RNone)

\* Query.sort(expression)
Query_sort(s) ==
    /\ query.kind = "Query"
    /\ query.changes < MaxChanges
    /\ query' = [query EXCEPT !.sorts = Append(@, sort_entry(s)),
                              !._pagination = NoPage,
                              !.changes = @ + 1,
                              !.dropped = @ \/ (query._pagination # NoPage
                                                /\ query._pagination.current # NoPage)]
    /\ RecordQuery("sort", RNone)

\* Query.limit(v)
Query_limit(v) ==
    /\ query.kind = "Query"
    /\ query.changes < MaxChanges
    /\ query' = [query EXCEPT !.page_size = v,
                              !._pagination = NoPage,
                              !.changes = @ + 1,
                              !.dropped = @ \/ (query._pagination # NoPage
                                                /\ query._pagination.current # NoPage)]
    /\ RecordQuery("limit", RNone)

\* Query.pagination: the cursor, built when there is none
Query_pagination ==
    /\ query.kind = "Query"
    /\ IF query._pagination # NoPage
       THEN /\ UNCHANGED query
            /\ RecordQuery("pagination", RGot(query._pagination))
       ELSE LET qs == Query__qs(query)
                p == Pagination_init(query.uri, qs.qs, query.page_size)
            IN IF qs.raise # <<>>
               THEN /\ UNCHANGED query
                    /\ RecordQuery("pagination", RRaise(qs.raise[1]))
               ELSE IF p.raise # <<>>
               THEN /\ UNCHANGED query
                    /\ RecordQuery("pagination", RRaise(p.raise[1]))
               ELSE /\ query' = [query EXCEPT !._pagination = p.value]
                    /\ RecordQuery("pagination", RGot(p.value))

\* Query._qs()
Query_qs ==
    /\ query.kind = "Query"
    /\ UNCHANGED query
    /\ RecordQuery("_qs", IF Query__qs(query).raise # <<>>
                          THEN RRaise(Query__qs(query).raise[1])
                          ELSE RGot(List(Query__qs(query).qs)))

\* The cursor of the Query fetches its first page (Pagination.first through
\* the Query's sequence protocol): the page is the answer to the cursor's
\* parameters and size
Query_fetch ==
    /\ query.kind = "Query"
    /\ query._pagination # NoPage
    /\ query._pagination.current = NoPage
    /\ query' = [query EXCEPT !._pagination.current =
                    [kind |-> "page", params |-> query._pagination.params,
                     limit |-> query._pagination.size]]
    /\ RecordQuery("fetch", RNone)

\* The URIs a Query or a Pagination is made from: with and without
\* filters, sorts, a limit, a repeated key, a blank value; with a limit or
\* an offset that is zero, negative, repeated or no integer
QueryUris ==
    {Uri("/items", qs) :
        qs \in {<<>>,
                <<Pair("a", "1")>>,
                <<Pair("a[in]", "1,2"), Pair("b", "x"), Pair("a[in]", "3")>>,
                <<Pair("sort", "me,asc")>>,
                <<Pair("b", "x"), Pair("sort", "me,asc"), Pair("sort", "u,desc"),
                  Pair("limit", "2")>>,
                <<Pair("limit", "2")>>,
                <<Pair("a", ""), Pair("b", "x")>>,
                <<Pair("limit", "0")>>,
                <<Pair("limit", "-1")>>,
                <<Pair("limit", "1"), Pair("limit", "2")>>,
                <<Pair("a", "1"), Pair("limit", "x")>>,
                <<Pair("a", "1"), Pair("offset", "1")>>,
                <<Pair("offset", "1"), Pair("offset", "2")>>,
                <<Pair("offset", "x")>>}}

\* The arguments of filter: keywords a=1 and a='' , expressions b > 2 and
\* a in (1, 2)
FilterArgs ==
    {[field |-> "a", op |-> "=", value |-> <<"1">>],
     [field |-> "a", op |-> "=", value |-> <<"">>],
     [field |-> "b", op |-> ">", value |-> <<"2">>],
     [field |-> "a", op |-> "in", value |-> <<"1", "2">>]}

\* The arguments of sort: me.asc(), u.desc()
SortArgs ==
    {[field |-> "me", ascending |-> TRUE], [field |-> "u", ascending |-> FALSE]}

NextQuery ==
    \/ \E uri \in QueryUris, page_size \in 0 .. MaxSize :
          \E order \in Orders(DOMAIN parse_qs(uri.qs)) :
             Query_init(uri, page_size, order)
    \/ \E f \in FilterArgs : Query_filter(f)
    \/ \E s \in SortArgs : Query_sort(s)
    \/ \E v \in 0 .. MaxSize : Query_limit(v)
    \/ \E uri \in QueryUris : Pagination_new(uri, MaxSize)
    \/ Query_pagination
    \/ Query_qs
    \/ Query_fetch

SpecQuery == InitResource /\ [][NextQuery]_vars

-----------------------------------------------------------------------------
\* FilterExpression, SortExpression and the fields that build them

FilterExpression(field, op, value, inv_op) ==
    [kind |-> "FilterExpression", field |-> field, op |-> op, value |-> value,
     inv_op |-> inv_op]

SortExpression(field, ascending) ==
    [kind |-> "SortExpression", field |-> field, ascending |-> ascending]

\* The operators a field builds a filter with, and for each the inverse
\* operator it gives the expression (none for startswith and endswith)
inverse ==
    [op \in {"in", "startswith", "endswith", "contains", "like", "ilike",
             "<", "<=", "=", "!=", ">", ">="} |->
        CASE op = "in" -> <<"!in">>
          [] op = "startswith" -> <<>>
          [] op = "endswith" -> <<>>
          [] op = "contains" -> <<"!contains">>
          [] op = "like" -> <<"!like">>
          [] op = "ilike" -> <<"!ilike">>
          [] op = "<" -> <<">=">>
          [] op = "<=" -> <<">">>
          [] op = "=" -> <<"!=">>
          [] op = "!=" -> <<"=">>
          [] op = ">" -> <<"<=">>
          [] op = ">=" -> <<"<">>]

\* _ResourceField.in_ / startswith / ... / __lt__ / ... / __ge__ (value):
\* the text operators take a string, the comparisons a single value, in_
\* its arguments as a tuple
_ResourceField_filter(field, op, value) ==
    IF \/ op \in {"startswith", "endswith", "contains", "like", "ilike"}
          /\ value.kind # "str"
       \/ op \in {"<", "<=", "=", "!=", ">", ">="} /\ value.kind = "list"
    THEN [raise |-> <<"ValueError">>, value |-> None]
    ELSE [raise |-> <<>>,
          value |-> FilterExpression(field, op,
                                     IF op = "in" /\ value.kind # "list"
                                     THEN List(<<value>>) ELSE value,
                                     inverse[op])]

\* FilterExpression.__invert__
FilterExpression___invert___keeps_inverse(e) ==
    IF e.inv_op = <<>>
    THEN [raise |-> <<"TypeError">>, value |-> None]
    ELSE [raise |-> <<>>,
          value |-> FilterExpression(e.field, e.inv_op[1], e.value, e.inv_op)]
FilterExpression___invert__(e) ==
    IF e.inv_op = <<>>
    THEN [raise |-> <<"TypeError">>, value |-> None]
    ELSE [raise |-> <<>>,
          value |-> FilterExpression(e.field, e.inv_op[1], e.value, <<e.op>>)]

\* SortExpression.__invert__
SortExpression___invert__(e) ==
    [raise |-> <<>>, value |-> SortExpression(e.field, ~e.ascending)]

\* An operation on an expression records what came of it
RecordExpression(name, res) ==
    /\ call' = name
    /\ key' = 0
    /\ before' = NoPage
    /\ result' = res
    /\ issued' = <<>>
    /\ UNCHANGED <<total, size, current, gen, hops, objects, props, log,
                   client, exchange, defined, server>>

\* The expression that was built, the expression inverting it has given
\* since, and how often it was inverted
Built(e) == [kind |-> "expression", made |-> e, now |-> e, inversions |-> 0]

\* Resource1.f.<field> <op> value
Field_filter(field, op, value) ==
    /\ query = NoQuery
    /\ LET r == _ResourceField_filter(field, op, value)
       IN IF r.raise # <<>>
          THEN /\ UNCHANGED query
               /\ RecordExpression(op, RRaise(r.raise[1]))
          ELSE /\ query' = Built(r.value)
               /\ RecordExpression(op, RGot(r.value))

\* Resource1.f.<field>.asc() / .desc()
Field_sort(field, ascending) ==
    /\ query = NoQuery
    /\ query' = Built(SortExpression(field, ascending))
    /\ RecordExpression(IF ascending THEN "asc" ELSE "desc",
                        RGot(SortExpression(field, ascending)))

\* ~expression, of the expression the last inversion gave
Expression_invert ==
    /\ query.kind = "expression"
    /\ query.inversions < MaxInversions
    /\ LET r == IF query.now.kind = "FilterExpression"
                THEN FilterExpression___invert__(query.now)
                ELSE SortExpression___invert__(query.now)
       IN IF r.raise # <<>>
          THEN /\ UNCHANGED query
               /\ RecordExpression("__invert__", RRaise(r.raise[1]))
          ELSE /\ query' = [query EXCEPT !.now = r.value, !.inversions = @ + 1]
               /\ RecordExpression("__invert__", RGot(r.value))

\* The fields and the values expressions are built with
FieldNames == {"a", "b"}
FieldValues == {Number(1), Number(2), Str("x"), List(<<Number(1), Number(2)>>)}

NextExpression ==
    \/ \E field \in FieldNames, op \in DOMAIN inverse, value \in FieldValues :
          Field_filter(field, op, value)
    \/ \E field \in FieldNames, ascending \in BOOLEAN :
          Field_sort(field, ascending)
    \/ Expression_invert

SpecExpression == InitResource /\ [][NextExpression]_vars

-----------------------------------------------------------------------------
\* Resource classes defined on one registry

\* A class statement: the class attribute type (or none), the class
\* attribute page_cls, and the class it derives from (0: the base
\* Resource, n: the nth class defined before)
ClassDecl(type, page_cls, base) ==
    [type |-> type, page_cls |-> page_cls, base |-> base]

\* The classes the registry holds: the nth resource class defined, a page
\* class
Class(n) == [kind |-> "class", n |-> n]
PageClass(name) == [kind |-> "page_cls", name |-> name]

\* The class attribute type of a page class: Page's, which the subclasses
\* of Page inherit
Page_type(page_cls) == "page"

\* issubclass(cls, other) for the nth class of `classes`
RECURSIVE issubclass(_, _, _)
issubclass(classes, n, other) ==
    /\ other.kind = "class"
    /\ \/ n = other.n
       \/ classes[n].base # 0 /\ issubclass(classes, classes[n].base, other)

\* _ResourceMeta.__new__ for the class statement decl: the class is
\* registered under its type, its page class under the page type when that
\* type has no class yet; a class of another line of descent under the
\* type, or another page class under the page type, is logged
_ResourceMeta___new__(d, decl) ==
    LET n == Len(d.classes) + 1
        classes == Append(d.classes, decl)
    IN IF decl.type = <<>>
       THEN [d EXCEPT !.classes = classes]
       ELSE LET type == decl.type[1]
                overriding == /\ type \in DOMAIN d.registry
                              /\ ~issubclass(classes, n, d.registry[type])
                with_cls == (type :> Class(n)) @@ d.registry
                page_type == Page_type(decl.page_cls)
                page_cls == PageClass(decl.page_cls)
                other_page == /\ page_type \in DOMAIN with_cls
                              /\ with_cls[page_type] # page_cls
            IN [classes |-> classes,
                registry |-> IF page_type \notin DOMAIN with_cls
                             THEN (page_type :> page_cls) @@ with_cls
                             ELSE with_cls,
                warnings |-> d.warnings + (IF overriding THEN 1 ELSE 0)
                                        + (IF other_page THEN 1 ELSE 0)]

\* ResourceRegistry.match(type)
ResourceRegistry_match(reg, type) ==
    IF type \in DOMAIN reg THEN RGot(reg[type]) ELSE RRaise("LookupError")

\* An operation on the classes records its argument and what came of it
RecordClass(name, arg, res) ==
    /\ call' = name
    /\ key' = arg
    /\ before' = NoPage
    /\ result' = res
    /\ issued' = <<>>
    /\ UNCHANGED <<total, size, current, gen, hops, objects, props, log,
                   client, exchange, query, server>>

\* class ...(Resource): type = ...; page_cls = ...
Resource_define(decl) ==
    /\ Len(defined.classes) < MaxClasses
    /\ decl.base <= Len(defined.classes)
    /\ defined' = _ResourceMeta___new__(defined, decl)
    /\ RecordClass("class", "", RNone)

\* Resource.registry.match(type)
Registry_match(type) ==
    /\ UNCHANGED defined
    /\ RecordClass("match", type, ResourceRegistry_match(defined.registry, type))

\* The class statements: without and with a type, with Page or a page
\* class of their own, derived from Resource or from a class defined before
ClassDecls ==
    {ClassDecl(type, page_cls, base) :
        type \in {<<>>, <<"one">>, <<"two">>},
        page_cls \in {"Page", "Page2"},
        base \in 0 .. MaxClasses - 1}

\* The types looked up
Types == {"one", "two", "three", "page"}

NextRegistry ==
    \/ \E decl \in ClassDecls : Resource_define(decl)
    \/ \E type \in Types : Registry_match(type)

SpecRegistry == InitResource /\ [][NextRegistry]_vars

-----------------------------------------------------------------------------
\* Pagination over pages materialized from payloads

\* The uri of the page of `limit` items at `offset`
PageUri(limit, offset) ==
    Str(Uri("/items", <<Pair("limit", ToString(limit)),
                        Pair("offset", ToString(offset))>>))

\* The entry of _uris that declares a link to a page
PageLink(property_key) ==
    Dict(("_type" :> Str("page")) @@ ("key" :> Str(property_key)))

\* The payload the endpoint answers to GET ?limit=..&offset=..: the page
\* with its next and previous links, declared with the page type
PagePayload(limit, offset) ==
    LET page == ServerPage(limit, offset)
    IN ("_type" :> Str("page"))
       @@ ("_uris" :> Dict(("next_uri" :> PageLink("next"))
                           @@ ("previous_uri" :> PageLink("previous"))))
       @@ ("items" :> List([n \in DOMAIN page.items |-> Number(page.items[n])]))
       @@ ("total" :> Number(page.total))
       @@ ("offset" :> Number(offset))
       @@ ("limit" :> Number(limit))
       @@ ("next_uri" :> IF Page_next(page) = NoPage THEN None
                         ELSE PageUri(limit, offset + limit))
       @@ ("previous_uri" :> IF Page_previous(page) = NoPage THEN None
                             ELSE PageUri(limit, Max(0, offset - limit)))

\* The Page object with __dict__ d
PageObject(d) == [kind |-> "Page", dict |-> d]

\* Page(resource_cls, **data): the object, and the properties of the
\* classes afterwards (the class Page has none before its first instance)
Page___init__(ps, data) ==
    LET o == _objectify(ps @@ ("Page" :> EmptyDict), "Page", data)
    IN [value |-> PageObject(o.dict), props |-> o.props]

\* Pagination._page(key) where page_cls is Page and the client answers
\* with the endpoint's payload
page_of_payload(ps, k) ==
    LET made == Page___init__(ps, PagePayload(PageRequest(k, 0).limit,
                                              PageRequest(k, 0).offset))
    IN [value |-> made.value, props |-> made.props,
        issued |-> <<PageRequest(k, 0)>>]

\* The request len(collection) issues for a ResourceCollection that has
\* fetched nothing: PaginationMixin.count, which asks its own Pagination
\* (made from the uri of the link) for page 0
len_request(collection) ==
    [limit |-> Pagination_init(collection.uri.s.path, collection.uri.s.qs,
                               10).value.size,
     offset |-> 0]

\* bool(v) of a value a cursor or a link holds: None is false, a Page
\* object is true, a ResourceCollection is asked for its __len__
bool(v) ==
    CASE v.kind \in {"none", "NoneType"} -> [value |-> FALSE, issued |-> <<>>]
      [] v.kind = "collection" ->
            [value |-> total # 0, issued |-> <<len_request(v)>>]
      [] OTHER -> [value |-> TRUE, issued |-> <<>>]

\* The value a getter returned, as the cursor holds it
held(v) == IF v.kind = "NoneType" THEN NoPage ELSE v

\* The property Pagination.current read with _current = cur
current_of_payload(ps, cur) ==
    LET b == bool(cur)
        got == page_of_payload(ps, 0)
    IN IF ~b.value
       THEN [value |-> got.value, props |-> got.props,
             issued |-> b.issued \o got.issued]
       ELSE [value |-> cur, props |-> ps, issued |-> b.issued]

\* An operation on the cursor records the cursor it was called on and what
\* came of it; the properties of the classes are as ps
RecordPayload(name, ps, res, reqs) ==
    /\ call' = name
    /\ key' = 0
    /\ before' = current
    /\ result' = res
    /\ issued' = reqs
    /\ props' = ps
    /\ UNCHANGED <<total, size, gen, hops, objects, log, client, exchange,
                   query, defined, server>>

\* Pagination.first
Payload_first ==
    LET got == page_of_payload(props, 0)
    IN /\ current' = got.value
       /\ RecordPayload("first", got.props, RGot(got.value), got.issued)

\* Pagination.next (property_key "next") and Pagination.previous
\* ("previous"): `if not self.current.<link>: return None`, then
\* `self._current = self._current.<link>`
Payload_follow(property_key) ==
    LET cp == current_of_payload(props, current)
    IN IF cp.value.kind # "Page"
       THEN /\ current' = cp.value
            /\ RecordPayload(property_key, cp.props, RRaise("AttributeError"),
                             cp.issued)
       ELSE LET g == getattr_link(cp.props, "Page", cp.value.dict,
                                  property_key, EmptyDict)
                b == bool(g.result.value)
            IN IF ~b.value
               THEN /\ current' = PageObject(g.dict)
                    /\ RecordPayload(property_key, cp.props, RNone,
                                     cp.issued \o g.issued \o b.issued)
               ELSE /\ current' = held(g.result.value)
                    /\ RecordPayload(property_key, cp.props,
                                     RGot(g.result.value),
                                     cp.issued \o g.issued \o b.issued)

\* Pagination.count
Payload_count ==
    LET b == bool(current)
        probe == page_of_payload(props, 0)
    IN /\ UNCHANGED current
       /\ IF ~b.value
          THEN RecordPayload("count", probe.props,
                             RInt(CeilDiv(probe.value.dict["total"].n, size)),
                             b.issued \o probe.issued)
          ELSE IF current.kind # "Page"
          THEN RecordPayload("count", props, RRaise("AttributeError"), b.issued)
          ELSE RecordPayload("count", props,
                             RInt(CeilDiv(current.dict["total"].n, size)),
                             b.issued)

NextPayload ==
    \/ Payload_first
    \/ \E property_key \in {"next", "previous"} : Payload_follow(property_key)
    \/ Payload_count

SpecPayload == Init /\ [][NextPayload]_vars

-----------------------------------------------------------------------------
\* Properties

\* The number of pages of the collection: the least c with c * s >= n.
PagesOf(n, s) == CHOOSE c \in 0 .. n : c * s >= n /\ \A d \in 0 .. c - 1 : d * s < n

\* The pages of the collection
NPages == PagesOf(total, size)

\* list[start:stop:step] of the language on an in-memory list, step not 0:
\* the positions between the clipped bounds that are a whole number of steps
\* from the first one, in the direction of the step.
ListSlice(list, sl) ==
    LET n == Len(list)
        step == IF sl.step = <<>> THEN 1 ELSE sl.step[1]
        norm(v) == IF v < 0 THEN v + n ELSE v
        clip(v, lo, hi) == IF v < lo THEN lo ELSE IF v > hi THEN hi ELSE v
        from == IF step > 0
                THEN (IF sl.start = <<>> THEN 0 ELSE clip(norm(sl.start[1]), 0, n))
                ELSE (IF sl.start = <<>> THEN n - 1
                      ELSE clip(norm(sl.start[1]), -1, n - 1))
        to == IF step > 0
              THEN (IF sl.stop = <<>> THEN n ELSE clip(norm(sl.stop[1]), 0, n))
              ELSE (IF sl.stop = <<>> THEN -1
                    ELSE clip(norm(sl.stop[1]), -1, n - 1))
        P == IF step > 0
             THEN {q \in 0 .. n - 1 : q >= from /\ q < to /\ (q - from) % step = 0}
             ELSE {q \in 0 .. n - 1 : q <= from /\ q > to /\ (from - q) % (-step) = 0}
        rank(q) == IF step > 0
                   THEN Cardinality({r \in P : r < q})
                   ELSE Cardinality({r \in P : r > q})
    IN [j \in 1 .. Cardinality(P) |-> list[(CHOOSE q \in P : rank(q) = j - 1) + 1]]

\* C1: pagination[i], for 0 <= i < count(), returns the page whose offset is
\* i * size (and whose limit is size), whatever page is current.
C1_IndexReturnsPageI ==
    (call = "index" /\ key >= 0 /\ key < NPages) =>
        /\ result.kind = "page"
        /\ result.page.offset = key * size
        /\ result.page.limit = size

\* C2: pagination[i] raises IndexError for every i >= count() and every
\* i < -count(), and pagination[-k] is pagination[count()-k] for k in
\* 1 .. count().
C2_OutOfRangeRaises ==
    /\ (call = "index" /\ (key >= NPages \/ key < -NPages)) =>
           result = RRaise("IndexError")
    /\ \A k \in 1 .. NPages :
           _index(current, -k).result = _index(current, NPages - k).result

\* C3: count() is ceil(total / size); with a current page held it issues no
\* request, on an unfetched cursor it issues exactly one and the cursor
\* stays unfetched.
C3_Count ==
    call = "count" =>
        /\ result = RInt(NPages)
        /\ current = before
        /\ Truthy(before) => issued = <<>>
        /\ ~Truthy(before) => Len(issued) = 1 /\ current = NoPage

C3_Witness ==
    /\ call = "count"
    /\ before = NoPage
    /\ Len(issued) = 1
    /\ total > size
    /\ total % size # 0

\* C4: next() (previous()) on a current page whose next (previous) link is
\* absent returns None and leaves the current page as it was.
C4_AbsentLinkIsTerminal ==
    /\ (call = "next" /\ Truthy(before) /\ ~Truthy(Page_next(before))) =>
           (result = RNone /\ current = before /\ issued = <<>>)
    /\ (call = "previous" /\ Truthy(before) /\ ~Truthy(Page_previous(before))) =>
           (result = RNone /\ current = before /\ issued = <<>>)

C4_Witness ==
    /\ call = "next"
    /\ Truthy(before)
    /\ before.offset > 0
    /\ ~Truthy(Page_next(before))
    /\ result = RNone

C7_IterationUpdatesCursor ==
    call = "iter" =>
        /\ gen.pc = "yielded" => current_property(current).value = gen.page
        /\ gen.pc = "done" =>
               current_property(current).value = gen.out[Len(gen.out)]

C9_MixinOne ==
    call = "mixin_one" =>
        /\ total = 0 => result = RRaise("NoResultFound")
        /\ total > 1 => result = RRaise("MultipleResultsFound")
        /\ total = 1 => result = RItem(0)

\* C10: Pagination.one() raises MultipleResultsFound when count() > 1,
\* NoResultFound when count() is 0, and otherwise fetches page 0, makes it
\* current and returns it.
C10_PaginationOne ==
    call = "one" =>
        /\ NPages > 1 => result = RRaise("MultipleResultsFound")
        /\ NPages = 0 => result = RRaise("NoResultFound")
        /\ NPages = 1 =>
               /\ result = RPage(ServerPage(size, 0))
               /\ current = ServerPage(size, 0)

\* The pages and the items of the collection as in-memory lists
AllPages == [i \in 1 .. NPages |-> ServerPage(size, (i - 1) * size)]
AllItems == [i \in 1 .. total |-> i - 1]

\* C11: pagination[start:stop:step] is the same slice of the in-memory list
\* of the pages P0 .. P(n-1), whatever page is current.
C11_PageSliceIsListSlice ==
    (call = "slice" /\ key.step # <<0>>) =>
        result = RPages(ListSlice(AllPages, key))

\* C12: q[start:stop:step] on a Query / ResourceCollection is the same slice
\* of the in-memory list of the items, in every state of the cursor.
C12_ItemSliceIsListSlice ==
    (call = "mixin_slice" /\ key.step # <<0>>) =>
        result = RItems(ListSlice(AllItems, key))

\* C13: q[i] is item i for 0 <= i < N, q[-k] is item N-k for 1 <= k <= N, and
\* every other integer index raises IndexError, in every state of the cursor.
C13_ItemIndex ==
    call = "mixin_index" =>
        /\ (0 <= key /\ key < total) => result = RItem(key)
        /\ (-total <= key /\ key < 0) => result = RItem(total + key)
        /\ (key >= total \/ key < -total) => result = RRaise("IndexError")

\* The link an instance's own fields declare for the property p: the uri
\* fields its _uris table maps to p
own_links(d, p) == {k \in links(d) : d["_uris"].d[k].d["key"] = Str(p)}

\* The target type the instance's own fields declare for the link held by k
own_type(d, k) == d["_uris"].d[k].d["_type"].s

\* C14: over the life of an instance's fields, reading a link property issues
\* one GET at most: the first read issues exactly one when the link uri is
\* not null and the target type is a member resource, none when the uri is
\* null (the value is None) or the target is the page type (the value is an
\* unfetched ResourceCollection over the uri); every later read returns the
\* value of the first read and issues nothing.
C14_LinkReadOnce ==
    call = "getattr" =>
        LET d == before.object.dict IN
        \A k \in own_links(d, key.data) :
            own_type(d, k) \in DOMAIN registry =>
                /\ before.log.how = "read" =>
                      result = RGot(before.log.held) /\ issued = <<>>
                /\ (before.log.how = "none" /\ d[k] = None) =>
                      result = RGot(None) /\ issued = <<>>
                /\ (before.log.how = "none" /\ d[k] # None
                        /\ own_type(d, k) = "page") =>
                      result = RGot(ResourceCollection(d[k], None)) /\ issued = <<>>
                /\ (before.log.how = "none" /\ d[k] # None
                        /\ own_type(d, k) # "page") =>
                      issued = <<Get(d[k])>>

\* C15: a read of a link property after an assignment to it returns the
\* assigned value and asks the server nothing, resolved before or not; and
\* once the property holds a value, assigning other fields (the link's own
\* uri field included) does not change what it returns.
C15_AssignReplacesCache ==
    call = "getattr" =>
        /\ before.log.how = "assigned" =>
              result = RGot(before.log.held) /\ issued = <<>>
        /\ (before.log.how # "none" /\ before.log.touched) =>
              result = RGot(before.log.held)

\* a read after the link was resolved, then assigned, then its uri field
\* changed
C15_Witness ==
    /\ call = "getattr"
    /\ before.log.how = "assigned"
    /\ before.log.resolved
    /\ before.log.touched
    /\ \E k \in own_links(before.object.dict, key.data) :
          before.object.dict[k] = OtherUri
    /\ result = RGot(Str("own"))

\* C16: with two instances of one class whose payloads declare the same link
\* property differently, the first read of the property on each instance
\* reads the uri field and materializes the target type its own payload
\* declares.
C16_OwnSideTable ==
    (call = "getattr" /\ before.log.how = "none"
        /\ objects["r1"] # NoObject /\ objects["r2"] # NoObject) =>
        LET d == before.object.dict IN
        \A k \in own_links(d, key.data) :
            own_type(d, k) \in DOMAIN registry =>
                /\ d[k] = None => result = RGot(None)
                /\ (d[k] # None /\ own_type(d, k) = "page") =>
                      result = RGot(ResourceCollection(d[k], None))
                /\ (d[k] # None /\ own_type(d, k) # "page") =>
                      /\ issued = <<Get(d[k])>>
                      /\ result.kind = "value" =>
                            /\ result.value.kind = "resource"
                            /\ result.value.cls = registry[own_type(d, k)]
                      /\ result.kind = "raise" =>
                            /\ result.error = "ValueError"
                            /\ result.message[1] = registry[own_type(d, k)]

\* C17: Resource1.get (type "one") answered with a "two" or with a page fails
\* with the ValueError naming Resource1's tag and the answer's tag, and binds
\* no instance; Resource.get (no type) accepts every answer.
C17_TypeMismatch ==
    call = "get" =>
        LET cls == key.data.cls
            fields == key.data.fields
        IN
        /\ (cls = "Resource1" /\ "_type" \in DOMAIN fields
                /\ fields["_type"] \in {Str("two"), Str("page")}) =>
              /\ result = RValueError("Resource1", Str("one"), fields["_type"])
              /\ objects[key.obj] = before.object
        /\ cls = "Resource" =>
              /\ result = RSelf(key.obj)
              /\ objects[key.obj] # NoObject
              /\ objects[key.obj].cls = "Resource"

\* Resource1.get answered with a page
C17_Witness ==
    /\ call = "get"
    /\ key.data.cls = "Resource1"
    /\ "_type" \in DOMAIN key.data.fields
    /\ key.data.fields["_type"] = Str("page")
    /\ result.kind = "raise"

\* A nested value of an unregistered type is kept a plain dict, its own
\* values walked: a registered member inside it is an instance.
PlainWalked(value, loaded) ==
    (value.kind = "dict" /\ "_type" \in DOMAIN value.d
        /\ value.d["_type"].s \notin DOMAIN registry) =>
        /\ loaded.kind = "dict"
        /\ DOMAIN loaded.d = DOMAIN value.d
        /\ \A k \in DOMAIN value.d :
              IF value.d[k].kind = "dict" /\ "_type" \in DOMAIN value.d[k].d
                    /\ value.d[k].d["_type"].s \in DOMAIN registry
              THEN loaded.d[k].kind \in {"resource", "collection"}
              ELSE loaded.d[k] = value.d[k]

\* C18: materializing a payload with a nested value of an unregistered type
\* or with a link to an unregistered type succeeds; the nested value is kept
\* plain with its own values walked, the instance gets no lazy property for
\* the link and its raw uri field is set.
C18_RegistryMissNotFatal ==
    call \in {"new", "get"} =>
        LET fields == key.data.fields
            cls == key.data.cls
            missed == {k \in links(fields) :
                          own_type(fields, k) \notin DOMAIN registry}
            nested == {k \in DOMAIN fields \ links(fields) :
                          /\ ~startswith_underscore(k)
                          /\ fields[k].kind = "dict"
                          /\ "_type" \in DOMAIN fields[k].d
                          /\ fields[k].d["_type"].s \notin DOMAIN registry}
            fits == \/ cls = "Resource"
                    \/ "_type" \notin DOMAIN fields
                    \/ fields["_type"] = Str("one")
        IN
        (fits /\ (missed # {} \/ nested # {})) =>
            /\ result = RSelf(key.obj)
            /\ objects[key.obj] # NoObject
            /\ \A k \in nested :
                  PlainWalked(fields[k], objects[key.obj].dict[k])
            /\ \A k \in missed :
                  /\ objects[key.obj].dict[k] = fields[k]
                  /\ ~hasattr(props, cls, fields["_uris"].d[k].d["key"].s)

\* C19: save() issues exactly one request, a PUT to the instance's uri, or a
\* POST to the root uri of its class when it has no uri; the body holds
\* every field but uri and but those whose value is a Resource or a
\* ResourceCollection; with no uri and no root it raises and asks nothing.
C19_SaveRequest ==
    call = "save" =>
        LET d == before.object.dict
            cls == before.object.cls
            kept == {k \in DOMAIN d :
                        k # "uri" /\ d[k].kind \notin {"resource", "collection"}}
            body == [k \in kept |-> d[k]]
        IN
        /\ "uri" \in DOMAIN d => issued = <<Put(d["uri"], body)>>
        /\ ("uri" \notin DOMAIN d /\ cls = "Resource1") =>
              issued = <<Post(Str("/v2/1s"), body)>>
        /\ ("uri" \notin DOMAIN d /\ cls = "Resource") =>
              result = RRaise("TypeError") /\ issued = <<>>

\* a save of an instance that holds a Resource and plain fields
C19_Witness ==
    /\ call = "save"
    /\ \E k \in DOMAIN before.object.dict :
          before.object.dict[k].kind = "resource"
    /\ \E k \in DOMAIN before.object.dict \ {"uri"} :
          before.object.dict[k].kind = "str"
    /\ Len(issued) = 1
    /\ issued[1].method = "PUT"

\* C20: after a save() or a refresh() that succeeds, the fields of the
\* instance are those a new instance made from the response holds: the
\* fields the response does not carry are gone, resolved links included; the
\* instance is the same object of the same class; saving again with the same
\* response leaves the fields as they are.
C20_Rematerialized ==
    (call \in {"save", "refresh"} /\ result = RSelf(key.obj)) =>
        LET fields == key.data.fields
            d == objects[key.obj].dict
        IN
        /\ DOMAIN d = DOMAIN fields
        /\ \A p \in PropertyKeys : cached_key(p) \notin DOMAIN d
        /\ d = setattr_each(fields)
        /\ objects[key.obj].cls = before.object.cls
        /\ before.object.dict = setattr_each(fields) => d = before.object.dict

\* a save that drops a resolved link and a field the response does not carry
C20_Witness ==
    /\ call = "save"
    /\ result = RSelf(key.obj)
    /\ \E p \in PropertyKeys : cached_key(p) \in DOMAIN before.object.dict
    /\ "name" \in DOMAIN before.object.dict
    /\ "name" \notin DOMAIN key.data.fields

-----------------------------------------------------------------------------
\* Client and configuration

\* C21: leaving a configuration scope, normally or through an error, makes
\* the very Config object live again that was live when the scope was
\* entered, and that object holds what it held then: nothing changed inside
\* the scope (headers, hook lists, attributes) shows, at any depth down to
\* the outermost scope.
C21_ScopeRestores ==
    call = "__exit__" =>
        LET t == key.thread
            at_entry == before.entered[Len(before.entered)]
        IN /\ Client_config(client, t) = at_entry.id
           /\ Config_value(client.heap, at_entry.id) = at_entry.value

\* A scope in which the headers, the hooks and the timeout were all changed
\* has been left through an error, and it was the outermost one
C21_Witness ==
    /\ call = "__exit__"
    /\ result = RRaise("Exception")
    /\ depth(client, "t1") = 0
    /\ LET was == before.config
           now == Config_value(client.heap, Client_config(client, "t1"))
       IN /\ was.headers # now.headers
          /\ was.before_request # now.before_request
          /\ was.timeout # now.timeout

\* C22: a request of one thread never works with a header that the other
\* thread set inside a scope, in any interleaving of the two threads'
\* steps, and leaving a scope gives a thread back the configuration it
\* had itself when it entered.
C22_ThreadsIsolated ==
    /\ call = "request" =>
          LET seen == result.config
          IN \A k \in DOMAIN seen.headers :
                seen.headers[k].by \in Threads \ {key.thread}
                   => seen.headers[k].at = 0
    /\ call = "__exit__" =>
          LET t == key.thread
          IN Client_config(client, t) = before.entered[Len(before.entered)].id

\* A thread makes a request outside any scope while the other thread is in
\* a scope in which it has changed a header
C22_Witness ==
    /\ call = "request"
    /\ depth(client, key.thread) = 0
    /\ \E u \in Threads \ {key.thread} :
          /\ depth(client, u) > 0
          /\ "X-Custom" \in DOMAIN Config_value(client.heap, Client_config(client, u)).headers
          /\ Config_value(client.heap, Client_config(client, u)).headers["X-Custom"]
                = Tag(u, depth(client, u))

-----------------------------------------------------------------------------
\* Request executor

\* The calls of one kind that the request made, in order
calls_of(kind) == SelectSeq(exchange.events, LAMBDA e : e.kind = kind)

\* The transport was called and answered with a response
responded == exchange.outcome.kind = "response" /\ calls_of("transport") # <<>>

\* allow_redirects of the request: the caller's, else the configured one
allowed ==
    IF exchange.kwargs.allow_redirects = <<>>
    THEN exchange.config.allow_redirects
    ELSE exchange.kwargs.allow_redirects[1]

\* C23: the headers the transport is called with are the headers of the
\* call and the configured default headers together (and what the hooks
\* added); a header that both have is sent with the value of the call.
C23_HeadersMerged ==
    call = "_op" =>
        LET supplied == Client_kwargs(exchange.method, exchange.kwargs).headers
            configured == exchange.config.headers
            sent == calls_of("transport")
        IN \A n \in 1 .. Len(sent) :
              LET h == sent[n].kwargs.headers
              IN /\ DOMAIN h \ {"X-a", "X-b"} = DOMAIN supplied \cup DOMAIN configured
                 /\ \A k \in DOMAIN supplied : h[k] = supplied[k]
                 /\ \A k \in DOMAIN configured \ DOMAIN supplied : h[k] = configured[k]

\* C24: every registered before_request hook is called once, in the order
\* of registration, with the method, root_url + uri and the outgoing
\* parameters, which hold what the hooks before it changed; the transport
\* call comes after all of them and gets what all of them changed.
C24_BeforeHooks ==
    call = "_op" =>
        LET hooks == exchange.config.before_request
            called == calls_of("before")
            events == exchange.events
        IN /\ Len(called) = Len(hooks)
           /\ \A n \in 1 .. Len(called) :
                 /\ called[n].by = hooks[n]
                 /\ called[n].method = exchange.method
                 /\ called[n].url = exchange.config.root_url \o exchange.uri
                 /\ \A m \in 1 .. n - 1 :
                       ("X-" \o hooks[m]) \in DOMAIN called[n].kwargs.headers
           /\ \A p \in 1 .. Len(events) :
                 events[p].kind = "transport" =>
                    /\ \A q \in 1 .. Len(events) :
                          events[q].kind = "before" => q < p
                    /\ \A m \in 1 .. Len(hooks) :
                          ("X-" \o hooks[m]) \in DOMAIN events[p].kwargs.headers

\* C25: when the transport call gave a response (of any status, with a body
\* that decodes or not), every registered after_request hook is called
\* once, in the order of registration, with that response, after the
\* transport call; when the transport failed without a response, none is.
C25_AfterHooks ==
    call = "_op" =>
        LET hooks == exchange.config.after_request
            called == calls_of("after")
            events == exchange.events
        IN IF responded
           THEN /\ Len(called) = Len(hooks)
                /\ \A n \in 1 .. Len(called) :
                      /\ called[n].by = hooks[n]
                      /\ called[n].response.status_code
                            = exchange.outcome.response.status_code
                      /\ called[n].response.headers
                            = exchange.outcome.response.headers
                /\ \A p, q \in 1 .. Len(events) :
                      events[p].kind = "transport" /\ events[q].kind = "after"
                         => p < q
           ELSE called = <<>>

\* How the claim classifies the response of a request
C26_classified ==
    LET response == exchange.outcome.response
    IN /\ response.status_code \in REDIRECT_STATI /\ ~allowed =>
            /\ result.kind = "raise"
            /\ result.error = "Redirection"
            /\ result.response.status_code = response.status_code
            /\ result.response.headers = response.headers
       /\ response.status_code \notin REDIRECT_STATI
             /\ response.status_code \notin 200 .. 299 =>
            /\ result.kind = "raise"
            /\ result.error = exchange.config.error_cls
       /\ response.status_code \in REDIRECT_STATI /\ allowed =>
            /\ result.kind = "response"
            /\ result.response.status_code = response.status_code

decodes(response) ==
    \/ "Content-Type" \notin DOMAIN response.headers
    \/ _deserialize(response).raise = <<>>

C27_TransportFailure ==
    call = "_op" /\ exchange.outcome.kind = "raise" /\ calls_of("transport") # <<>> =>
        /\ result = RRaise(exchange.outcome.error)
        /\ calls_of("after") = <<>>

\* The transport timed out in a request with hooks before and after
C27_Witness ==
    /\ call = "_op"
    /\ exchange.outcome = [kind |-> "raise", error |-> "Timeout"]
    /\ calls_of("transport") # <<>>
    /\ calls_of("before") # <<>>
    /\ exchange.config.after_request # <<>>
    /\ result = RRaise("Timeout")

\* The parts of the message the claim names: status and status_code from
\* the body when it is a dict that has them, else the reason phrase (when
\* the status has one) and the numeric status; the description
C28_parts(response) ==
    LET d == IF response.data # <<>> /\ response.data[1].kind = "dict"
             THEN response.data[1].d ELSE EmptyDict
    IN <<IF "status" \in DOMAIN d THEN d["status"]
         ELSE IF response.status_code \in DOMAIN httplib_responses
         THEN Str(httplib_responses[response.status_code]) ELSE None,
         IF "status_code" \in DOMAIN d THEN d["status_code"]
         ELSE Number(response.status_code),
         IF "description" \in DOMAIN d THEN d["description"] ELSE None>>

\* C28: the default error made from an error response has as message the
\* non-empty parts among status, status_code, description joined by ": ",
\* has the HTTP status as its status_code attribute whatever the body
\* says, and has every other key of a dict body as an attribute.
C28_ErrorMessage ==
    call = "Error" =>
        LET response == exchange.response
            d == IF response.data # <<>> /\ response.data[1].kind = "dict"
                 THEN response.data[1].d ELSE EmptyDict
        IN /\ result.error = "Error"
           /\ result.message = join(": ", str_each(if_truthy(C28_parts(response))))
           /\ result.attrs["status_code"] = Number(response.status_code)
           /\ \A k \in DOMAIN d \ {"status", "status_code", "description"} :
                 k \in DOMAIN result.attrs /\ result.attrs[k] = d[k]

-----------------------------------------------------------------------------
\* Query

\* The key and the value a filter or sort entry of the Query stands for
entry_key(e) == IF e.kind = "tuple" THEN e.k ELSE "sort"
entry_value(e) == IF e.kind = "tuple" THEN e.v ELSE e.s

\* The values the Query's current filters and sorts hold for key k, in order
terms_of(k) ==
    LET of_k == SelectSeq(query.filters \o query.sorts,
                          LAMBDA e : entry_key(e) = k)
    IN [n \in 1 .. Len(of_k) |-> entry_value(of_k[n])]

\* C29: filter, sort and limit leave the Query without a cursor, and the
\* next access to its pagination gives a new cursor that has fetched
\* nothing, whose URI has exactly the Query's current filters and sorts as
\* parameters and whose size is the Query's current page size.
C29_Invalidated ==
    /\ call \in {"filter", "sort", "limit"} => query._pagination = NoPage
    /\ call = "pagination" /\ before = NoPage =>
          /\ result.kind = "value"
          /\ query._pagination = result.value
          /\ result.value.current = NoPage
          /\ result.value.size = query.page_size
          /\ DOMAIN result.value.params
                = {entry_key(e) : e \in {(query.filters \o query.sorts)[n] :
                                           n \in 1 .. Len(query.filters \o query.sorts)}}
          /\ \A k \in DOMAIN result.value.params :
                result.value.params[k] = terms_of(k)

\* C30: for a Query made from a URI and not changed since, _qs() succeeds
\* and gives, for every key of the URI but limit, the URI's values of that
\* key in their order, and nothing else; limit is no filter but the page
\* size; the sorts are the entries sort() makes for the same fields and
\* directions.
C30_RoundTrip ==
    call = "_qs" /\ query.changes = 0 =>
        LET given == query.from.qs
            kept == SelectSeq(given, LAMBDA e : e.k # "limit")
        IN /\ result.kind = "value"
           /\ keys_of(result.value.l) = keys_of(kept)
           /\ \A k \in keys_of(kept) :
                 values_of(result.value.l, k) = values_of(kept, k)
           /\ \A n \in 1 .. Len(query.filters) : query.filters[n].k # "limit"
           /\ "limit" \in keys_of(given) =>
                 query.page_size = int(values_of(given, "limit")[1]).value
           /\ query.sorts = [n \in 1 .. Len(values_of(given, "sort")) |->
                               Pair("sort", values_of(given, "sort")[n])]

\* The URI has a limit or an offset parameter more than once, or one that
\* is no integer
malformed(uri) ==
    \E k \in {"limit", "offset"} :
        \/ Len(values_of(uri.qs, k)) > 1
        \/ \E n \in 1 .. Len(values_of(uri.qs, k)) :
              int(values_of(uri.qs, k)[n]).raise # <<>>

\* C31: no Query holds a page size that is not positive (the constructor
\* and limit() reject it, a limit of the URI included), and every
\* Pagination that is built, by a Query or from a URI, has a size above 0.
C31_PositiveSize ==
    /\ query.kind = "Query" =>
          /\ query.page_size > 0
          /\ query._pagination # NoPage => query._pagination.size > 0
    /\ call = "Pagination" /\ result.kind = "value" => result.value.size > 0

\* C32: constructing a Pagination from a URI with a repeated or
\* non-integer limit or offset raises ValueError, and so does constructing
\* a Query: no Query exists that was made from such a URI.
C32_MalformedRejected ==
    /\ call = "Pagination" /\ malformed(key) => result = RRaise("ValueError")
    /\ query.kind = "Query" => ~malformed(query.from)

-----------------------------------------------------------------------------
\* Expressions

\* C33: inverting an expression an even number of times gives the
\* expression again (field, operator, value and inverse operator; field and
\* direction of a sort); inverting a filter an odd number of times gives
\* what the field builds with the inverse operator and the same value, when
\* it builds with that operator; a filter without inverse operator cannot
\* be inverted: TypeError.
C33_Involution ==
    query.kind = "expression" =>
        LET f == query.made
        IN /\ query.inversions % 2 = 0 => query.now = f
           /\ query.inversions % 2 = 1 /\ f.kind = "SortExpression" =>
                 query.now = SortExpression(f.field, ~f.ascending)
           /\ query.inversions % 2 = 1 /\ f.kind = "FilterExpression" =>
                 /\ query.now.op = f.inv_op[1]
                 /\ f.inv_op[1] \in DOMAIN inverse =>
                       query.now
                         = _ResourceField_filter(f.field, f.inv_op[1], f.value).value
           /\ f.kind = "FilterExpression" /\ f.op \in {"startswith", "endswith"} =>
                 /\ query.inversions = 0
                 /\ call = "__invert__" => result = RRaise("TypeError")

\* a < 1 was inverted twice
C33_Witness ==
    /\ query.kind = "expression"
    /\ call = "__invert__"
    /\ query.inversions = 2
    /\ query.made = FilterExpression("a", "<", Number(1), <<">=">>)
    /\ query.now = query.made

-----------------------------------------------------------------------------
\* Registry

\* The classes defined with the type tag, by their numbers; the classes
\* defined with any type
registered(tag) ==
    {n \in 1 .. Len(defined.classes) : defined.classes[n].type = <<tag>>}
typed == {n \in 1 .. Len(defined.classes) : defined.classes[n].type # <<>>}
latest(S) == CHOOSE n \in S : \A m \in S : m <= n

\* C34: match(tag) gives the class defined last with that type, and the
\* page class of the class registered last for the page type; for a tag
\* no class was registered under it raises LookupError.
C34_LastRegistrationWins ==
    call = "match" =>
        IF key = "page"
        THEN IF typed = {} THEN result = RRaise("LookupError")
             ELSE result = RGot(PageClass(defined.classes[latest(typed)].page_cls))
        ELSE IF registered(key) = {} THEN result = RRaise("LookupError")
             ELSE result = RGot(Class(latest(registered(key))))

-----------------------------------------------------------------------------
\* Cursor: positional access, probes, reading current

\* C35: when pagination[i], for i within -count() .. count() - 1, has
\* returned a page, that page is the current page of the Pagination.
C35_IndexReplacesCurrent ==
    call = "index" /\ key >= -NPages /\ key < NPages /\ result.kind = "page" =>
        current = result.page

\* The one request for the first k items
probe(k) == <<[limit |-> k, offset |-> 0]>>

\* C36: the request count() issues on an unfetched cursor asks for limit=1
\* at offset 0; the requests that count() and first() of a Query or
\* ResourceCollection issue ask for limit=1, that of one() for limit=2.
C36_ProbeSize ==
    /\ call = "count" /\ ~Truthy(before) => issued = probe(1)
    /\ call = "mixin_count" /\ issued # <<>> => issued = probe(1)
    /\ call = "mixin_first" /\ issued # <<>> => issued = probe(1)
    /\ call = "mixin_one" /\ issued # <<>> => issued = probe(2)

\* C37: reading current on an unfetched cursor issues one request, for
\* page 0, and makes that page current; reading it on a cursor that holds
\* a page (fetched before, or given to the constructor) issues no request
\* and returns the page held, which stays current.
C37_CurrentReadOnce ==
    call = "current" =>
        /\ before = NoPage =>
              /\ issued = <<[limit |-> size, offset |-> 0]>>
              /\ result = RPage(ServerPage(size, 0))
              /\ current = ServerPage(size, 0)
        /\ before # NoPage =>
              /\ issued = <<>>
              /\ result = RPage(before)
              /\ current = before

\* current was read again on a cursor that next() had moved
C37_Witness ==
    /\ call = "current"
    /\ before # NoPage
    /\ before.offset > 0
    /\ issued = <<>>
    /\ result = RPage(before)

\* C38: an iteration of a Pagination that has yielded a page comes to its
\* end, whatever next link the endpoint reports on its last page.
C38_Terminates == [](gen.pc = "yielded" => <>(gen.pc = "done"))

-----------------------------------------------------------------------------
\* Cursor over pages from payloads

\* C39: the cursor's current value is unset or a Page object with items,
\* total and offset; next(), previous() and count() raise nothing; a next()
\* or previous() that finds its link absent has issued no request, and one
\* that follows its link has issued none but requests for the page at the
\* offset the link names.
C39_CurrentIsPage ==
    /\ \/ current = NoPage
       \/ /\ current.kind = "Page"
          /\ {"items", "total", "offset"} \subseteq DOMAIN current.dict
    /\ call \in {"next", "previous", "count"} => result.kind # "raise"
    /\ call \in {"next", "previous"} /\ before # NoPage /\ before.kind = "Page" =>
          IF before.dict[call \o "_uri"] = None
          THEN result = RNone /\ issued = <<>>
          ELSE \A n \in 1 .. Len(issued) :
                  ToString(issued[n].offset)
                     = values_of(before.dict[call \o "_uri"].s.qs, "offset")[1]

-----------------------------------------------------------------------------
\* Failed save and refresh

\* C40: a save() or refresh() that raises (the request failed, or the
\* payload of the response does not materialize) leaves the instance with
\* the fields it had.
C40_FailureKeepsFields ==
    call \in {"save", "refresh"} /\ result.kind = "raise" =>
        objects[key.obj] = before.object

\* refresh() of an instance with fields ended with Redirection
C40_Witness ==
    /\ call = "refresh"
    /\ result = RRaise("Redirection")
    /\ before.object # NoObject
    /\ "name" \in DOMAIN before.object.dict
    /\ objects[key.obj] = before.object

====
